---- MODULE Spec2Model ----
(***************************************************************************)
(* A model of the rsiv asset pipeline: the Loader's two lanes and worker   *)
(* pool (src/src/loader.rs) and the CacheManager (src/src/cache.rs).       *)
(*                                                                         *)
(* Loader: one consumer thread (the event loop that owns `Loader`) calls   *)
(* request_image / request_thumbnail; NumWorkers threads run worker_loop.  *)
(* Every synchronisation point of the code is one step of the model: a     *)
(* channel send or receive, a mutex acquisition, the critical section's    *)
(* operations, a condvar wait and its wake-up.                             *)
(***************************************************************************)
EXTENDS Integers, Sequences, FiniteSets, Bags, TLC

\* ---------------------------------------------------------------- bounds

\* worker threads spawned by Loader::new (num_cpus / 2, at least 1)
NumWorkers == 2
\* request_image calls the consumer makes
MaxUrgent == 2
\* request_thumbnail calls the consumer makes; also the number of
\* background pops explored when the lane starts pre-filled
MaxBackground == 1

\* paths the cache is asked about
NumCachePaths == 2
\* paths with oversized images beyond the OversizedCap the side list holds
NumExtraPaths == 1
\* distinct decoded images per weight class
MaxVer == 1

\* files on disk under the roots given to discovery
NumFiles == 3
\* holders of a clone of the cached image's Arc besides the event loop
MaxHolders == 2
\* largest width and height of a decoded image whose pixels are followed
MaxDim == 2
\* most frames of such an image
MaxFrames == 2
\* most rotations and flips applied to it
MaxOps == 4
\* most frames of a GIF file, and the largest numerator and denominator of
\* a frame's declared delay
MaxGifFrames == 2
MaxNumer == 3
MaxDenom == 2
\* largest width, height and target size of a thumbnail request
MaxSide == 9
\* cells of the grid a redraw finds visible
VisibleCells == 2
\* changes of files the watcher reports
MaxChanges == 1
\* results the event loop lets wait while a long lane drains
MaxQueued == 2

\* ------------------------------------------------------ program constants

\* loader.rs:174   if stack.len() > 200 { stack.pop_back(); }
BackgroundCap == 200
\* loader.rs:24   let mut buffer = [0; 1024];
PrefixBytes == 1024
\* cache.rs:21   image_limit_kb, at the floor .max(1024.0) gives it
ImageLimitKb == 1024
\* cache.rs:60   if oversized.len() > 3 { oversized.remove(0); }
OversizedCap == 3
\* loader.rs:376   Duration::from_millis(100)
DefaultDelayMs == 100
\* loader.rs:416   Duration::MAX, in no unit: larger than every delay
DurationMax == -1
\* loader.rs:306   f64: significands of 53 bits, kept here in three limbs
\* of 20 bits
LimbBase == 1048576
SignificandBits == 53

Workers == 1..NumWorkers

\* The files on disk: the consumer's i-th request names file PathOf(i), and
\* a.png decodes while b.png is corrupt (load_full_image returns Err).
Paths == {"a.png", "b.png"}
PathOf(i) == IF i % 2 = 0 THEN "a.png" ELSE "b.png"
Decodes(p) == p = "a.png"
Consumer == 0
Free == -1

\* LoadRequest (loader.rs:131): the payload is the path; id is the position
\* of the request in the consumer's sequence of submissions, kept to tell
\* requests apart.
NoReq == [id |-> 0, kind |-> "none", path |-> "none"]
LoadImage(i, p) == [id |-> i, kind |-> "image", path |-> p]
LoadThumbnail(i, p) == [id |-> i, kind |-> "thumb", path |-> p]

VARIABLES
    urgent,      \* urgent_tx/urgent_rx: the unbounded channel, head = oldest
    stack,       \* background_stack.0: the VecDeque, head = front
    mutex,       \* holder of background_stack.0's lock: Free, Consumer, or a worker
    notified,    \* workers in cvar.wait_timeout that notify_one has chosen
    cpc,         \* consumer's position inside request_thumbnail
    creq,        \* the request the consumer is pushing
    wpc,         \* each worker's position in worker_loop
    cur,         \* the request each worker holds (req)
    events,      \* bag of AppEvents sent through the proxy
    nextId,      \* number of requests submitted so far
    nUrgent,     \* request_image calls so far
    nBackground, \* request_thumbnail calls so far
    taken,       \* history: the requests workers have taken so far
    dropped,     \* history: ids removed by the cap
    lanePre,     \* history: the lane as the running request_thumbnail found it
    idleSubmit   \* history: urgent ids sent while every worker was blocked

loaderVars == <<urgent, stack, mutex, notified, cpc, creq, wpc, cur, events,
                nextId, nUrgent, nBackground, taken, dropped, lanePre,
                idleSubmit>>

VARIABLES
    image_cache,  \* CacheManager.image_cache: path -> image, or NoVal
    thumb_cache,  \* CacheManager.thumb_cache: path -> thumbnail, or NoVal
    oversized,    \* CacheManager.oversized_images: Vec of (path, image)
    lastOp,       \* history: the CacheManager call made last
    lru           \* history: the oversized paths in order of last use

cacheVars == <<image_cache, thumb_cache, oversized, lastOp, lru>>

VARIABLES
    fclass,      \* the disk: file -> what identify_format and probe_image find
    roots,       \* `paths`: the root paths not walked yet
    files,       \* `files`: the Vec the walk fills and sort() orders
    tasks,       \* `tasks`: the recognized files, in the order of `files`
    probing,     \* indices whose closure of the parallel for_each has not run
    devents,     \* the events sent through the proxy, oldest first
    dpc          \* the discovery thread's position

discVars == <<fclass, roots, files, tasks, probing, devents, dpc>>

VARIABLES
    all_images,    \* App.all_images: one slot per discovered file
    images,        \* App.images: the slots shown, all or the filter's matches
    current_index, \* App.current_index, 0-based
    filter_text    \* App.filter_text

appVars == <<all_images, images, current_index, filter_text>>

VARIABLES
    heap,        \* the Arc allocations: object -> content and strong count
    cacheObj,    \* the object the weighted store's Arc points to, 0 for none
    holders      \* the Arcs other holders cloned from the cache

VARIABLES
    loaded,      \* a decoded image: width, height and the frames' pixels
    decoded,     \* history: the image as the decoder delivered it
    ops          \* history: the rotations and flips applied since

VARIABLES
    fmt_file,    \* a file on disk: whether it can be opened, and its bytes
    fmt_result,  \* what identify_format returned for it
    fmt_kept     \* what discovery did with it: a task, or dropped

VARIABLES
    delivered,           \* the discovery events the event loop has handled
    discovery_complete,  \* App.discovery_complete
    exited               \* the handler of DiscoveryComplete called exit()

VARIABLES
    gif_frames,  \* the frames of a GIF file: each one's declared delay
    gif_result   \* what decode_gif returned for it

VARIABLES
    thumb_req,   \* a thumbnail request: the file's width and height, the size
    thumb_dims   \* the width and height of the thumbnail made for it

VARIABLES
    pending,     \* App.pending: the paths requested and not answered yet
    urgentq,     \* the image requests sent and not processed, oldest first
    thumbq,      \* the thumbnail requests pushed and not processed, front first
    proxyq,      \* the user events sent through the proxy, oldest first
    disk,        \* the files: path -> version of the content, 0 when absent
    nchanges,    \* changes of files so far
    stale        \* history: pending paths a handled FileChanged or
                 \* FileDeleted has invalidated since their request

arcVars == <<heap, cacheObj, holders>>
pixelVars == <<loaded, decoded, ops>>
gifVars == <<gif_frames, gif_result>>
thumbVars == <<thumb_req, thumb_dims>>
fmtVars == <<fmt_file, fmt_result, fmt_kept>>
reqVars == <<pending, urgentq, thumbq, proxyq, disk, nchanges, stale>>
loopVars == <<delivered, discovery_complete, exited>>

\* what the cache manager's, the loader's and discovery's steps leave alone
labVars ==
    <<arcVars, pixelVars, gifVars, thumbVars, fmtVars, loopVars, reqVars>>
\* what the event loop's handlers leave alone
otherVars ==
    <<loaderVars, discVars, arcVars, pixelVars, gifVars, thumbVars, fmtVars,
      loopVars>>

vars == <<loaderVars, cacheVars, discVars, appVars, labVars>>

\* ------------------------------------------------------------ the two lanes

\* crossbeam unbounded(): send appends at the tail
ChanSend(q, r) == Append(q, r)

\* a receive that hands out the newest message instead of the oldest
ChanRecvNewest(q) == [msg |-> q[Len(q)], rest |-> SubSeq(q, 1, Len(q) - 1)]

\* a receive that leaves the message in the channel
ChanRecvPeek(q) == [msg |-> Head(q), rest |-> q]

\* crossbeam try_recv / recv_timeout on a non-empty channel: the oldest
\* message, removed from the channel
ChanRecv(q) == [msg |-> Head(q), rest |-> Tail(q)]

\* VecDeque::push_front
PushFront(s, r) == <<r>> \o s

\* a pop at the wrong end: the oldest entry
PopFrontOldest(s) == [item |-> s[Len(s)], rest |-> SubSeq(s, 1, Len(s) - 1)]

\* a pop that hands the front entry out and leaves it in the deque
PopFrontKept(s) == [item |-> Head(s), rest |-> s]

\* VecDeque::pop_front (on a non-empty deque): the element and what is left
PopFront(s) == [item |-> Head(s), rest |-> Tail(s)]

\* a cap that drops at the front: the entry just pushed
PopBackNewest(s) == Tail(s)

\* VecDeque::pop_back
PopBack(s) == SubSeq(s, 1, Len(s) - 1)

\* a cap that lets one entry too many stay
CapDropLate(s) == IF Len(s) > BackgroundCap + 1 THEN PopBack(s) ELSE s

\* loader.rs:174-176   if stack.len() > 200 { stack.pop_back(); }
CapDrop(s) == IF Len(s) > BackgroundCap THEN PopBack(s) ELSE s

Ids(s) == {s[i].id : i \in 1..Len(s)}

\* ---------------------------------------------------------------- consumer

AllBlocked == \A w \in Workers : wpc[w] \in {"recv", "wait"}

\* Loader::request_image: one send on the urgent channel
RequestImage ==
    /\ cpc = "idle"
    /\ nUrgent < MaxUrgent
    /\ urgent' = ChanSend(urgent, LoadImage(nextId + 1, PathOf(nextId + 1)))
    /\ nextId' = nextId + 1
    /\ nUrgent' = nUrgent + 1
    /\ idleSubmit' = IF AllBlocked THEN idleSubmit \cup {nextId + 1}
                     ELSE idleSubmit
    /\ UNCHANGED <<stack, mutex, notified, cpc, creq, wpc, cur, events,
                   nBackground, taken, dropped, lanePre>>
    /\ UNCHANGED <<cacheVars, discVars, appVars, labVars>>

\* Loader::request_thumbnail, loader.rs:167: lock.lock()
ThumbLock ==
    /\ cpc = "idle"
    /\ nBackground < MaxBackground
    /\ mutex = Free
    /\ mutex' = Consumer
    /\ creq' = LoadThumbnail(nextId + 1, PathOf(nextId + 1))
    /\ nextId' = nextId + 1
    /\ nBackground' = nBackground + 1
    /\ lanePre' = stack
    /\ cpc' = "push"
    /\ UNCHANGED <<urgent, stack, notified, wpc, cur, events, nUrgent,
                   taken, dropped, idleSubmit>>
    /\ UNCHANGED <<cacheVars, discVars, appVars, labVars>>

\* loader.rs:170: stack.push_front(..)
ThumbPush ==
    /\ cpc = "push"
    /\ stack' = PushFront(stack, creq)
    /\ cpc' = "cap"
    /\ UNCHANGED <<urgent, mutex, notified, creq, wpc, cur, events, nextId,
                   nUrgent, nBackground, taken, dropped, lanePre,
                   idleSubmit>>
    /\ UNCHANGED <<cacheVars, discVars, appVars, labVars>>

\* loader.rs:174-176: the cap
ThumbCap ==
    /\ cpc = "cap"
    /\ stack' = CapDrop(stack)
    /\ dropped' = dropped \cup (Ids(stack) \ Ids(stack'))
    /\ cpc' = "notify"
    /\ UNCHANGED <<urgent, mutex, notified, creq, wpc, cur, events, nextId,
                   nUrgent, nBackground, taken, lanePre, idleSubmit>>
    /\ UNCHANGED <<cacheVars, discVars, appVars, labVars>>

\* Condvar::notify_one: one of the waiting threads, if there is any
NotifyOne ==
    LET waiting == {w \in Workers : wpc[w] = "wait" /\ w \notin notified}
    IN  IF waiting = {} THEN notified' = notified
        ELSE \E w \in waiting : notified' = notified \cup {w}

\* loader.rs:178-179: cvar.notify_one(), then the guard is dropped
ThumbNotify ==
    /\ cpc = "notify"
    /\ NotifyOne
    /\ mutex' = Free
    /\ cpc' = "idle"
    /\ creq' = NoReq
    /\ lanePre' = <<>>
    /\ UNCHANGED <<urgent, stack, wpc, cur, events, nextId, nUrgent,
                   nBackground, taken, dropped, idleSubmit>>
    /\ UNCHANGED <<cacheVars, discVars, appVars, labVars>>

\* ------------------------------------------------------------- worker_loop

\* background pops made so far; the exploration stops popping a pre-filled
\* lane after MaxBackground of them
BgPops == Cardinality({r \in taken : r.kind = "thumb"})

\* a worker takes request r: it is `req`, about to enter process_request
Take(w, r) ==
    /\ cur' = [cur EXCEPT ![w] = r]
    /\ taken' = taken \cup {r}
    /\ wpc' = [wpc EXCEPT ![w] = "proc"]

\* loader.rs:189: urgent_rx.try_recv()
TryRecv(w) ==
    /\ wpc[w] = "try"
    /\ IF urgent # <<>>
       THEN /\ Take(w, ChanRecv(urgent).msg)
            /\ urgent' = ChanRecv(urgent).rest
       ELSE /\ wpc' = [wpc EXCEPT ![w] = "lock1"]
            /\ UNCHANGED <<urgent, cur, taken>>
    /\ UNCHANGED <<stack, mutex, notified, cpc, creq, events, nextId,
                   nUrgent, nBackground, dropped, lanePre, idleSubmit>>
    /\ UNCHANGED <<cacheVars, discVars, appVars, labVars>>

\* loader.rs:202: lock.lock()
LockFirst(w) ==
    /\ wpc[w] = "lock1"
    /\ mutex = Free
    /\ mutex' = w
    /\ wpc' = [wpc EXCEPT ![w] = "pop1"]
    /\ UNCHANGED <<urgent, stack, notified, cpc, creq, cur, events, nextId,
                   nUrgent, nBackground, taken, dropped, lanePre,
                   idleSubmit>>
    /\ UNCHANGED <<cacheVars, discVars, appVars, labVars>>

\* a worker that keeps the guard after its pop
GuardKept(w) == w

\* loader.rs:200-204, 248-253: the guard after the pop: the block ends,
\* drop(stack) runs, or wait_timeout releases it
GuardDropped(w) == Free

\* loader.rs:203-204: stack.pop_front(), and the guard goes out of scope
PopFirst(w) ==
    /\ wpc[w] = "pop1"
    /\ mutex' = GuardDropped(w)
    /\ IF stack # <<>>
       THEN /\ BgPops < MaxBackground
            /\ Take(w, PopFront(stack).item)
            /\ stack' = PopFront(stack).rest
       ELSE /\ wpc' = [wpc EXCEPT ![w] = "recv"]
            /\ UNCHANGED <<stack, cur, taken>>
    /\ UNCHANGED <<urgent, notified, cpc, creq, events, nextId, nUrgent,
                   nBackground, dropped, lanePre, idleSubmit>>
    /\ UNCHANGED <<cacheVars, discVars, appVars, labVars>>

\* loader.rs:242-244: urgent_rx.recv_timeout(10 ms): a message if one is
\* there or arrives in time, else the timeout
RecvTimeout(w) ==
    /\ wpc[w] = "recv"
    /\ IF urgent # <<>>
       THEN /\ Take(w, ChanRecv(urgent).msg)
            /\ urgent' = ChanRecv(urgent).rest
       ELSE /\ wpc' = [wpc EXCEPT ![w] = "lock2"]
            /\ UNCHANGED <<urgent, cur, taken>>
    /\ UNCHANGED <<stack, mutex, notified, cpc, creq, events, nextId,
                   nUrgent, nBackground, dropped, lanePre, idleSubmit>>
    /\ UNCHANGED <<cacheVars, discVars, appVars, labVars>>

\* loader.rs:247: lock.lock()
LockSecond(w) ==
    /\ wpc[w] = "lock2"
    /\ mutex = Free
    /\ mutex' = w
    /\ wpc' = [wpc EXCEPT ![w] = "pop2"]
    /\ UNCHANGED <<urgent, stack, notified, cpc, creq, cur, events, nextId,
                   nUrgent, nBackground, taken, dropped, lanePre,
                   idleSubmit>>
    /\ UNCHANGED <<cacheVars, discVars, appVars, labVars>>

\* loader.rs:248-253: pop_front and drop(stack), or cvar.wait_timeout, which
\* releases the mutex and parks the thread
PopSecond(w) ==
    /\ wpc[w] = "pop2"
    /\ mutex' = GuardDropped(w)
    /\ IF stack # <<>>
       THEN /\ BgPops < MaxBackground
            /\ Take(w, PopFront(stack).item)
            /\ stack' = PopFront(stack).rest
       ELSE /\ wpc' = [wpc EXCEPT ![w] = "wait"]
            /\ UNCHANGED <<stack, cur, taken>>
    /\ UNCHANGED <<urgent, notified, cpc, creq, events, nextId, nUrgent,
                   nBackground, dropped, lanePre, idleSubmit>>
    /\ UNCHANGED <<cacheVars, discVars, appVars, labVars>>

\* a wait without the timeout: only a notification ends it
CanWakeNotifiedOnly(w) == w \in notified

\* loader.rs:253: wait_timeout(stack, 50 ms) ends on a notification or when
\* the 50 ms have passed
CanWake(w) == TRUE

\* loader.rs:253: the wait ends, wait_timeout takes the mutex again, and
\* `let _ =` drops the returned guard at once; back to the loop head
CvarWake(w) ==
    /\ wpc[w] = "wait"
    /\ CanWake(w)
    /\ mutex = Free
    /\ notified' = notified \ {w}
    /\ wpc' = [wpc EXCEPT ![w] = "try"]
    /\ UNCHANGED <<urgent, stack, mutex, cpc, creq, cur, events, nextId,
                   nUrgent, nBackground, taken, dropped, lanePre,
                   idleSubmit>>
    /\ UNCHANGED <<cacheVars, discVars, appVars, labVars>>

\* a process_request that reports successes only
ResultEventsSilentError(r, ok) ==
    IF ok
    THEN SetToBag({[type |-> IF r.kind = "image" THEN "ImagePixelsLoaded"
                             ELSE "ThumbnailLoaded",
                    path |-> r.path,
                    id   |-> r.id]})
    ELSE EmptyBag

\* process_request, loader.rs:261-284: the events sent for request r when
\* the decode succeeded (ok) or failed; id tells which request it answers
ResultEvents(r, ok) ==
    SetToBag({[type |-> IF ~ok THEN "LoadError"
                        ELSE IF r.kind = "image" THEN "ImagePixelsLoaded"
                        ELSE "ThumbnailLoaded",
               path |-> r.path,
               id   |-> r.id]})

\* process_request: decode, send one event, return to the loop
Process(w) ==
    /\ wpc[w] = "proc"
    /\ events' = events (+) ResultEvents(cur[w], Decodes(cur[w].path))
    /\ cur' = [cur EXCEPT ![w] = NoReq]
    /\ wpc' = [wpc EXCEPT ![w] = "try"]
    /\ UNCHANGED <<urgent, stack, mutex, notified, cpc, creq, nextId,
                   nUrgent, nBackground, taken, dropped, lanePre,
                   idleSubmit>>
    /\ UNCHANGED <<cacheVars, discVars, appVars, labVars>>

WorkerStep(w) ==
    \/ TryRecv(w)
    \/ LockFirst(w)
    \/ PopFirst(w)
    \/ RecvTimeout(w)
    \/ LockSecond(w)
    \/ PopSecond(w)
    \/ CvarWake(w)
    \/ Process(w)

\* ------------------------------------------------------------ CacheManager

CachePaths == 1..NumCachePaths
\* the paths of the runs that overflow the side list
SidePaths == 1..(OversizedCap + NumExtraPaths)
AllPaths == CachePaths \cup SidePaths
NoVal == [ver |-> 0, kb |-> 0]

\* a threshold one KB lower
SafeMokaLimitLower == ImageLimitKb \div 64 - 1

\* cache.rs:54   let safe_moka_limit = self.image_limit_kb / 64;
SafeMokaLimit == ImageLimitKb \div 64

\* decoded images: the heaviest one the weighted store takes and the
\* lightest one that goes to the side list
Images == [ver : 1..MaxVer, kb : {SafeMokaLimit, SafeMokaLimit + 1}]
Thumbs == {[ver |-> 1, kb |-> 1]}

\* LoadedImage::size_in_kb
SizeInKb(img) == img.kb

\* moka Cache::insert
MokaInsert(c, p, v) == [c EXCEPT ![p] = v]

\* moka Cache::get: the value, or NoVal for None
MokaGet(c, p) == c[p]

\* moka Cache::invalidate
MokaInvalidate(c, p) == [c EXCEPT ![p] = NoVal]

\* Vec::retain(|(q, _)| q != path)
Retain(o, p) == SelectSeq(o, LAMBDA e : e.path # p)

\* iter().position(|(q, _)| q == path): the first index, 0 for None
Position(o, p) ==
    IF \E i \in 1..Len(o) : o[i].path = p
    THEN CHOOSE i \in 1..Len(o) :
           /\ o[i].path = p
           /\ \A j \in 1..(i - 1) : o[j].path # p
    ELSE 0

\* Vec::remove(pos), 1-based here
RemoveAt(o, i) == SubSeq(o, 1, i - 1) \o SubSeq(o, i + 1, Len(o))

\* a hit that leaves the entry where it is
PromoteNone(o, p) == o

\* cache.rs:41-47: a hit in the side list moves the entry to the end
Promote(o, p) ==
    IF Position(o, p) # 0
    THEN Append(RemoveAt(o, Position(o, p)), o[Position(o, p)])
    ELSE o

OversizedPaths(o) == {o[i].path : i \in 1..Len(o)}

\* CacheManager::get_image, its return value (NoVal for None)
GetImageResult(p) ==
    IF Position(oversized, p) # 0
    THEN oversized[Position(oversized, p)].img
    ELSE MokaGet(image_cache, p)

\* CacheManager::get_thumbnail, its return value
GetThumbnailResult(p) == MokaGet(thumb_cache, p)

OtherOp == [op |-> "other", path |-> 0, hadAll |-> FALSE]

\* The order of last use, kept beside the side list as a record of the
\* calls: the oversized paths inserted and not removed since, the most
\* recently used last, a use being an oversized insert_image or a get_image
\* that found the path; a path leaves the record once OversizedCap other
\* paths have been used after it.
LruPaths == {lru[i].path : i \in 1..Len(lru)}
LruWithout(l, p) == SelectSeq(l, LAMBDA e : e.path # p)
LruEntry(l, p) == CHOOSE e \in {l[i] : i \in 1..Len(l)} : e.path = p
LruTrim(l) ==
    IF Len(l) > OversizedCap
    THEN SubSeq(l, Len(l) - OversizedCap + 1, Len(l))
    ELSE l
LruUse(l, p) ==
    IF \E i \in 1..Len(l) : l[i].path = p
    THEN Append(LruWithout(l, p), LruEntry(l, p))
    ELSE l
LruInsert(l, p, img) == LruTrim(Append(LruWithout(l, p), [path |-> p, img |-> img]))

\* CacheManager::get_image
GetImage(p) ==
    /\ oversized' = Promote(oversized, p)
    /\ lastOp' = OtherOp
    /\ lru' = LruUse(lru, p)
    /\ UNCHANGED <<image_cache, thumb_cache>>
    /\ UNCHANGED <<loaderVars, discVars, appVars, labVars>>

\* an insert that turns the image away when the side list is full
PushOversizedReject(o, p, img) ==
    IF Len(Retain(o, p)) >= OversizedCap
    THEN o
    ELSE Append(Retain(o, p), [path |-> p, img |-> img])

\* an insert that does not look for the path's old entry
PushOversizedNoRetain(o, p, img) ==
    LET pushed == Append(o, [path |-> p, img |-> img])
    IN  IF Len(pushed) > OversizedCap THEN RemoveAt(pushed, 1) ELSE pushed

\* cache.rs:57-62: the side list after an oversized insert
PushOversized(o, p, img) ==
    LET pushed == Append(Retain(o, p), [path |-> p, img |-> img])
    IN  IF Len(pushed) > OversizedCap THEN RemoveAt(pushed, 1) ELSE pushed

\* CacheManager::insert_image, what it does to the weighted store and to
\* the side list
InsertImageEffect(p, img) ==
    /\ IF SizeInKb(img) > SafeMokaLimit
       THEN /\ oversized' = PushOversized(oversized, p, img)
            /\ UNCHANGED image_cache
            /\ lru' = LruInsert(lru, p, img)
       ELSE /\ image_cache' = MokaInsert(image_cache, p, img)
            /\ UNCHANGED <<oversized, lru>>

\* history: an oversized insert that found the side list full of other paths
InsertOp(p, img) ==
    IF SizeInKb(img) > SafeMokaLimit /\ Len(LruWithout(lru, p)) = OversizedCap
    THEN [op |-> "overflow", path |-> p, hadAll |-> FALSE]
    ELSE OtherOp

\* CacheManager::insert_image
InsertImage(p, img) ==
    /\ InsertImageEffect(p, img)
    /\ lastOp' = InsertOp(p, img)
    /\ UNCHANGED thumb_cache
    /\ UNCHANGED <<loaderVars, discVars, appVars, labVars>>

\* CacheManager::get_thumbnail
GetThumbnail(p) ==
    /\ lastOp' = OtherOp
    /\ UNCHANGED <<image_cache, thumb_cache, oversized, lru>>
    /\ UNCHANGED <<loaderVars, discVars, appVars, labVars>>

\* CacheManager::insert_thumbnail
InsertThumbnail(p, t) ==
    /\ thumb_cache' = MokaInsert(thumb_cache, p, t)
    /\ lastOp' = OtherOp
    /\ UNCHANGED <<image_cache, oversized, lru>>
    /\ UNCHANGED <<loaderVars, discVars, appVars, labVars>>

\* a remove that empties the side list
RemoveOversizedAll(o, p) == <<>>

\* a remove that forgets the side list
RemoveOversizedKept(o, p) == o

\* cache.rs:78-80: oversized.retain(|(p, _)| p != path)
RemoveOversized(o, p) == Retain(o, p)

\* CacheManager::remove
Remove(p) ==
    /\ oversized' = RemoveOversized(oversized, p)
    /\ image_cache' = MokaInvalidate(image_cache, p)
    /\ thumb_cache' = MokaInvalidate(thumb_cache, p)
    /\ lastOp' = [op |-> "remove", path |-> p,
                  hadAll |-> /\ Position(oversized, p) # 0
                             /\ image_cache[p] # NoVal
                             /\ thumb_cache[p] # NoVal]
    /\ lru' = LruWithout(lru, p)
    /\ UNCHANGED <<loaderVars, discVars, appVars, labVars>>

\* ---------------------------------------------------------------- discovery

\* A file's path is its rank in path order. identify_format and probe_image
\* read the disk: "image" is recognized and probes, "corrupt" is recognized
\* and its probe fails, "other" is not recognized.
Files == 1..NumFiles
Classes == {"image", "corrupt", "other"}

\* a root path: the directory holding every file, a path that does not
\* exist, or the first file named directly
Dir == [kind |-> "dir", file |-> 0]
Missing == [kind |-> "missing", file |-> 0]
FileRoot(f) == [kind |-> "file", file |-> f]
RootLists ==
    {<<Dir>>, <<Missing, Dir>>, <<Dir, FileRoot(1)>>, <<FileRoot(1), FileRoot(1)>>}

\* the sequences that list each element of S once
Perms(S) ==
    {q \in [1..Cardinality(S) -> S] :
       \A i \in 1..Cardinality(S) : \A j \in 1..Cardinality(S) :
         q[i] = q[j] => i = j}

\* loader.rs:76-89: the files WalkDir yields under root r, in the order the
\* directory gives them (max_depth only limits how deep it looks)
WalkOrders(r) ==
    IF r.kind = "dir" THEN Perms(Files)
    ELSE IF r.kind = "file" THEN {<<r.file>>}
    ELSE {<<>>}

\* loader.rs:75-90: one iteration of `for p in paths`
Walk ==
    /\ dpc = "walk"
    /\ roots # <<>>
    /\ \E o \in WalkOrders(Head(roots)) : files' = files \o o
    /\ roots' = Tail(roots)
    /\ UNCHANGED <<fclass, tasks, probing, devents, dpc>>
    /\ UNCHANGED <<loaderVars, cacheVars, appVars, labVars>>

\* a discovery that keeps the order of the walk
FilesSortNone(f) == f

\* loader.rs:91   files.sort();
FilesSort(f) == SortSeq(f, LAMBDA a, b : a < b)

SortFiles ==
    /\ dpc = "walk"
    /\ roots = <<>>
    /\ files' = FilesSort(files)
    /\ dpc' = "identify"
    /\ UNCHANGED <<fclass, roots, tasks, probing, devents>>
    /\ UNCHANGED <<loaderVars, cacheVars, appVars, labVars>>

\* identify_format(&path) is Ok
Recognized(f) == fclass[f] # "other"

\* loader.rs:94-100: filter_map keeps the files identify_format accepts
Identify ==
    /\ dpc = "identify"
    /\ tasks' = SelectSeq(files, Recognized)
    /\ dpc' = "count"
    /\ UNCHANGED <<fclass, roots, files, probing, devents>>
    /\ UNCHANGED <<loaderVars, cacheVars, appVars, labVars>>

\* AppEvent (the discovery ones); idx is the count for InitialCount; the
\* path is the item's path, and for MetadataError the file that was probed
InitialCount(n) == [type |-> "InitialCount", idx |-> n, path |-> 0]
MetadataLoaded(i, f) == [type |-> "MetadataLoaded", idx |-> i, path |-> f]
MetadataError(i, f) == [type |-> "MetadataError", idx |-> i, path |-> f]
DiscoveryComplete == [type |-> "DiscoveryComplete", idx |-> 0, path |-> 0]

\* a count taken before the unrecognized files were dropped
CountOfFiles(fs, ts) == Len(fs)

\* loader.rs:102   tasks.len()
CountOfTasks(fs, ts) == Len(ts)

\* loader.rs:102: send InitialCount, then start the parallel iterator
SendInitialCount ==
    /\ dpc = "count"
    /\ devents' = Append(devents, InitialCount(CountOfTasks(files, tasks)))
    /\ probing' = 0..(Len(tasks) - 1)
    /\ dpc' = "probe"
    /\ UNCHANGED <<fclass, roots, files, tasks>>
    /\ UNCHANGED <<loaderVars, cacheVars, appVars, labVars>>

\* the file is there to open: where the files' versions are followed
\* (disk), it has not been removed
OnDisk(f) == f \in DOMAIN disk => disk[f] # 0

\* loader.rs:108-122: the closure for index i, run by some pool thread
Probe(i) ==
    /\ dpc = "probe"
    /\ i \in probing
    /\ devents' = Append(devents,
                         IF fclass[tasks[i + 1]] = "image" /\ OnDisk(tasks[i + 1])
                         THEN MetadataLoaded(i, tasks[i + 1])
                         ELSE MetadataError(i, tasks[i + 1]))
    /\ probing' = probing \ {i}
    /\ UNCHANGED <<fclass, roots, files, tasks, dpc>>
    /\ UNCHANGED <<loaderVars, cacheVars, appVars, labVars>>

\* a parallel loop the thread does not wait for
ProbesJoinedNot(left) == TRUE

\* for_each returns when every closure has returned
ProbesJoined(left) == left = {}

\* loader.rs:125
SendDiscoveryComplete ==
    /\ dpc = "probe"
    /\ ProbesJoined(probing)
    /\ devents' = Append(devents, DiscoveryComplete)
    /\ dpc' = "done"
    /\ UNCHANGED <<fclass, roots, files, tasks, probing>>
    /\ UNCHANGED <<loaderVars, cacheVars, appVars, labVars>>

\* ---------------------------------------------------------------------- App

\* ImageSlot (the variants the handlers below meet)
MetadataSlot(p, w, h) ==
    [slot |-> "MetadataLoaded", path |-> p, width |-> w, height |-> h]

\* the files on disk: odd paths are two pixels wide and one high, even
\* paths are one by one; probe_image reads these from the header
DiskWidth(p) == 1 + (p % 2)
DiskHeight(p) == 1

\* the decoded size: odd paths are the heaviest image the weighted store
\* takes, even paths the lightest that goes to the side list
DiskKb(p) == IF p % 2 = 1 THEN SafeMokaLimit ELSE SafeMokaLimit + 1

\* load_full_image: the LoadedImage decoded from the file
DiskImage(p) ==
    [ver |-> 1, kb |-> DiskKb(p), width |-> DiskWidth(p),
     height |-> DiskHeight(p), flipped |-> FALSE]

\* rotate (image_item.rs:196-217): the rotated buffer's size becomes the
\* image's width and height
Rotated(img) == [img EXCEPT !.width = img.height, !.height = img.width]

\* flip_horizontal / flip_vertical: same size, mirrored pixels
Flipped(img) == [img EXCEPT !.flipped = ~img.flipped]

\* the filter texts typed: none, or one that matches the first path only
FilterTexts == {"", "1"}
Matches(t, p) == t = "1" /\ p = 1

\* a mutation that leaves the thumbnail
PopThumbnailNone(c, p) == c

\* app.rs:216   self.cache.thumb_cache.pop(&path);
PopThumbnail(c, p) == MokaInvalidate(c, p)

\* app.rs:191-221: mutate_current_image(f), f being rotate (dims = TRUE) or a
\* flip (dims = FALSE)
MutateCurrentImage(dims) ==
    /\ Len(images) > current_index
    /\ LET item == images[current_index + 1]
           got  == MokaGet(image_cache, item.path)
           inner == IF dims THEN Rotated(got) ELSE Flipped(got)
       IN  IF got # NoVal
           THEN /\ images' = IF dims
                             THEN [images EXCEPT
                                     ![current_index + 1].width = inner.width,
                                     ![current_index + 1].height = inner.height]
                             ELSE images
                /\ InsertImageEffect(item.path, inner)
                /\ thumb_cache' = PopThumbnail(thumb_cache, item.path)
                /\ lastOp' = [op |-> "mutate", path |-> item.path,
                              hadAll |-> MokaGet(thumb_cache, item.path) # NoVal,
                              was |-> got, dims |-> dims]
           ELSE /\ lastOp' = OtherOp
                /\ UNCHANGED <<images, image_cache, thumb_cache, oversized, lru>>
    /\ UNCHANGED <<all_images, current_index, filter_text>>
    /\ UNCHANGED <<loaderVars, discVars, labVars>>

\* filtering.rs:7-44: the slots apply_filter leaves in `images`; the matches
\* score alike here, and the stable sort keeps their order
Filtered(all, t) ==
    IF t = ""
    THEN all
    ELSE SelectSeq(all, LAMBDA s : s.slot = "MetadataLoaded" /\ Matches(t, s.path))

\* app.rs:1133-1147: the filter text is edited, then apply_filter runs
SetFilter(t) ==
    /\ filter_text' = t
    /\ images' = Filtered(all_images, t)
    /\ current_index' = IF t = "" THEN current_index ELSE 0
    /\ UNCHANGED all_images
    /\ UNCHANGED <<loaderVars, cacheVars, discVars, labVars>>

\* app.rs:269: the next image, wrapping
NextImage ==
    /\ Len(images) > 0
    /\ current_index' = (current_index + 1) % Len(images)
    /\ UNCHANGED <<all_images, images, filter_text>>
    /\ UNCHANGED <<loaderVars, cacheVars, discVars, labVars>>

\* moka drops an entry of the weighted store to keep within max_capacity
\* (cache.rs:25-28); which entry and when is moka's choice
EvictImage(p) ==
    /\ MokaGet(image_cache, p) # NoVal
    /\ image_cache' = MokaInvalidate(image_cache, p)
    /\ lastOp' = OtherOp
    /\ UNCHANGED <<thumb_cache, oversized, lru>>
    /\ UNCHANGED <<loaderVars, discVars, appVars, labVars>>

\* ------------------------------------------------- requests and results

\* The loader as the event loop sees it: request_image and
\* request_thumbnail are one step each, and so is a worker processing a
\* request, from the dequeue to the event sent through the proxy. A request
\* remembers the version the file had when it was issued (seen): the worker
\* may have read the file at any time since.
Request(k, p) == [kind |-> k, path |-> p, seen |-> disk[p]]
UserEvent(t, p, v) == [type |-> t, path |-> p, ver |-> v]

\* the file's content at version v, decoded
DiskImageAt(p, v) == [DiskImage(p) EXCEPT !.ver = v]
ThumbAt(v) == [ver |-> v, kb |-> 1]

Min(a, b) == IF a <= b THEN a ELSE b

\* loader.rs:165-179   request_thumbnail: push_front, then pop_back above
\* the cap
PushThumbnail(q, r) ==
    IF Len(q) + 1 > BackgroundCap THEN SubSeq(<<r>> \o q, 1, Len(q))
    ELSE <<r>> \o q

\* a consumer that does not look at its pending set
NotPendingUnasked(set, p) == TRUE

\* app.rs:667, 684, 696, 709   !self.pending.contains(&item.path)
NotPending(set, p) == p \notin set

\* app.rs:662-676   the visible cells i..end-1 (0-based), in order
RECURSIVE GridRequests(_, _, _)
GridRequests(st, i, end) ==
    IF i >= end THEN st
    ELSE LET item == images[i + 1]
             want == /\ item.slot = "MetadataLoaded"
                     /\ GetThumbnailResult(item.path) = NoVal
                     /\ NotPending(st.pending, item.path)
         IN  GridRequests(
               IF want
               THEN [pending |-> st.pending \cup {item.path},
                     thumbq |-> PushThumbnail(st.thumbq, Request("thumb", item.path))]
               ELSE st,
               i + 1, end)

\* app.rs:647-679   RedrawRequested in grid mode, the first visible cell
\* being start
RedrawGrid(start) ==
    /\ start < Len(images)
    /\ LET st == GridRequests([pending |-> pending, thumbq |-> thumbq], start,
                              Min(start + VisibleCells, Len(images)))
       IN  /\ pending' = st.pending
           /\ thumbq' = st.thumbq
    /\ lastOp' = OtherOp
    /\ UNCHANGED <<image_cache, thumb_cache, oversized, lru>>
    /\ UNCHANGED <<urgentq, proxyq, disk, nchanges, stale>>
    /\ UNCHANGED appVars
    /\ UNCHANGED otherVars

\* app.rs:682-713   get_image for the current item, the next and the
\* previous one, each requested when it misses and is not pending
RECURSIVE SingleRequests(_, _)
SingleRequests(st, idxs) ==
    IF idxs = <<>> THEN st
    ELSE LET item == images[Head(idxs) + 1]
             hit == \/ Position(st.oversized, item.path) # 0
                    \/ MokaGet(image_cache, item.path) # NoVal
             looked == [st EXCEPT !.oversized = Promote(@, item.path),
                                  !.lru = LruUse(@, item.path)]
         IN  SingleRequests(
               IF item.slot # "MetadataLoaded" THEN st
               ELSE IF ~hit /\ NotPending(st.pending, item.path)
               THEN [looked EXCEPT
                       !.pending = @ \cup {item.path},
                       !.urgentq = Append(@, Request("image", item.path))]
               ELSE looked,
               Tail(idxs))

\* app.rs:680-715   RedrawRequested in single view
RedrawSingle ==
    /\ current_index < Len(images)
    /\ images[current_index + 1].slot = "MetadataLoaded"
    /\ LET st == SingleRequests(
                   [oversized |-> oversized, lru |-> lru,
                    pending |-> pending, urgentq |-> urgentq],
                   <<current_index>>
                     \o (IF current_index + 1 < Len(images)
                         THEN <<current_index + 1>> ELSE <<>>)
                     \o (IF current_index > 0
                         THEN <<current_index - 1>> ELSE <<>>))
       IN  /\ oversized' = st.oversized
           /\ lru' = st.lru
           /\ pending' = st.pending
           /\ urgentq' = st.urgentq
    /\ lastOp' = OtherOp
    /\ UNCHANGED <<image_cache, thumb_cache>>
    /\ UNCHANGED <<thumbq, proxyq, disk, nchanges, stale>>
    /\ UNCHANGED appVars
    /\ UNCHANGED otherVars

\* loader.rs:261-284   process_request's send_event: the decoded image or
\* thumbnail, or LoadError when the file could not be read
ResultOf(r, v) ==
    UserEvent(IF v = 0 THEN "LoadError"
              ELSE IF r.kind = "image" THEN "ImagePixelsLoaded"
              ELSE "ThumbnailLoaded",
              r.path, v)

\* loader.rs:189-191   a worker receives the oldest image request and
\* processes it
ProcessUrgent ==
    /\ urgentq # <<>>
    /\ \E v \in {Head(urgentq).seen, disk[Head(urgentq).path]} :
         proxyq' = Append(proxyq, ResultOf(Head(urgentq), v))
    /\ urgentq' = Tail(urgentq)
    /\ UNCHANGED <<pending, thumbq, disk, nchanges, stale>>
    /\ UNCHANGED <<cacheVars, appVars>>
    /\ UNCHANGED otherVars

\* loader.rs:199-207   a worker pops the front thumbnail request and
\* processes it
ProcessThumbnail ==
    /\ thumbq # <<>>
    /\ \E v \in {Head(thumbq).seen, disk[Head(thumbq).path]} :
         proxyq' = Append(proxyq, ResultOf(Head(thumbq), v))
    /\ thumbq' = Tail(thumbq)
    /\ UNCHANGED <<pending, urgentq, disk, nchanges, stale>>
    /\ UNCHANGED <<cacheVars, appVars>>
    /\ UNCHANGED otherVars

\* the next user event is of type t for path p
NextEvent(t, p) ==
    /\ proxyq # <<>>
    /\ Head(proxyq).type = t
    /\ Head(proxyq).path = p

\* app.rs:974-982   AppEvent::ImagePixelsLoaded
ImagePixelsLoaded(p) ==
    /\ NextEvent("ImagePixelsLoaded", p)
    /\ current_index < Len(images)
    /\ pending' = pending \ {p}
    /\ InsertImageEffect(p, DiskImageAt(p, Head(proxyq).ver))
    /\ lastOp' = InsertOp(p, DiskImageAt(p, Head(proxyq).ver))
    /\ UNCHANGED thumb_cache
    /\ proxyq' = Tail(proxyq)
    /\ stale' = stale \ {p}
    /\ UNCHANGED <<urgentq, thumbq, disk, nchanges>>
    /\ UNCHANGED appVars
    /\ UNCHANGED otherVars

\* app.rs:983-989   AppEvent::ThumbnailLoaded
ThumbnailLoaded(p) ==
    /\ NextEvent("ThumbnailLoaded", p)
    /\ pending' = pending \ {p}
    /\ thumb_cache' = MokaInsert(thumb_cache, p, ThumbAt(Head(proxyq).ver))
    /\ lastOp' = OtherOp
    /\ UNCHANGED <<image_cache, oversized, lru>>
    /\ proxyq' = Tail(proxyq)
    /\ stale' = stale \ {p}
    /\ UNCHANGED <<urgentq, thumbq, disk, nchanges>>
    /\ UNCHANGED appVars
    /\ UNCHANGED otherVars

\* app.rs:990-992   AppEvent::LoadError
LoadError(p) ==
    /\ NextEvent("LoadError", p)
    /\ pending' = pending \ {p}
    /\ proxyq' = Tail(proxyq)
    /\ stale' = stale \ {p}
    /\ UNCHANGED <<urgentq, thumbq, disk, nchanges>>
    /\ UNCHANGED <<cacheVars, appVars>>
    /\ UNCHANGED otherVars

\* the slots of a list that hold path p
SlotsOf(list, p) ==
    {i \in 1..Len(list) : list[i].slot = "MetadataLoaded" /\ list[i].path = p}

\* app.rs:1023-1029   partition_point: the slots before the first loaded
\* slot whose path is not below p
RECURSIVE PartitionPoint(_, _)
PartitionPoint(list, p) ==
    IF list = <<>> THEN 0
    ELSE IF Head(list).slot # "MetadataLoaded" \/ Head(list).path < p
    THEN 1 + PartitionPoint(Tail(list), p)
    ELSE 0

\* the predicate of app.rs:1023-1029
BelowOrUnloaded(s, p) == s.slot # "MetadataLoaded" \/ s.path < p

\* the list is partitioned by the predicate: no slot that fails it comes
\* before one that passes it
Partitioned(list, p) ==
    \A i \in 1..Len(list) : \A j \in 1..Len(list) :
      (i < j /\ BelowOrUnloaded(list[j], p)) => BelowOrUnloaded(list[i], p)

\* what partition_point may return: the partition point of a partitioned
\* list; the binary search's result on any other list is unspecified
InsertPositions(list, p) ==
    IF Partitioned(list, p) THEN {PartitionPoint(list, p)} ELSE 0..Len(list)

\* CacheManager::remove as a handler calls it
RemoveEffect(p) ==
    /\ oversized' = RemoveOversized(oversized, p)
    /\ image_cache' = MokaInvalidate(image_cache, p)
    /\ thumb_cache' = MokaInvalidate(thumb_cache, p)
    /\ lru' = LruWithout(lru, p)
    /\ lastOp' = OtherOp

\* filtering.rs:7-44   apply_filter on the new all_images
ApplyFilter(all) ==
    /\ all_images' = all
    /\ images' = Filtered(all, filter_text)
    /\ UNCHANGED filter_text

\* app.rs:996-1040   AppEvent::FileChanged
FileChanged(p) ==
    /\ NextEvent("FileChanged", p)
    /\ proxyq' = Tail(proxyq)
    /\ IF SlotsOf(all_images, p) # {}
       THEN LET idx == CHOOSE i \in SlotsOf(all_images, p) :
                         \A j \in SlotsOf(all_images, p) : i <= j
            IN  /\ current_index < Len(images)
                /\ RemoveEffect(p)
                /\ ApplyFilter([all_images EXCEPT ![idx] =
                                  MetadataSlot(p, DiskWidth(p), DiskHeight(p))])
                /\ stale' = stale \cup ({p} \cap pending)
       ELSE /\ \E pos \in InsertPositions(all_images, p) :
                 ApplyFilter(SubSeq(all_images, 1, pos)
                               \o <<MetadataSlot(p, DiskWidth(p), DiskHeight(p))>>
                               \o SubSeq(all_images, pos + 1, Len(all_images)))
            /\ UNCHANGED <<cacheVars, stale>>
    /\ current_index' = IF filter_text = "" THEN current_index ELSE 0
    /\ UNCHANGED <<pending, urgentq, thumbq, disk, nchanges>>
    /\ UNCHANGED otherVars

\* app.rs:1042-1073   AppEvent::FileDeleted
FileDeleted(p) ==
    /\ NextEvent("FileDeleted", p)
    /\ proxyq' = Tail(proxyq)
    /\ current_index < Len(images)
    /\ RemoveEffect(p)
    /\ ApplyFilter(SelectSeq(all_images,
                             LAMBDA s : ~(s.slot = "MetadataLoaded" /\ s.path = p)))
    /\ LET ci == IF filter_text = "" THEN current_index ELSE 0
       IN  current_index' = IF ci >= Len(images')
                            THEN (IF Len(images') = 0 THEN 0 ELSE Len(images') - 1)
                            ELSE ci
    /\ stale' = stale \cup ({p} \cap pending)
    /\ UNCHANGED <<pending, urgentq, thumbq, disk, nchanges>>
    /\ UNCHANGED otherVars

\* a file is rewritten, or written anew, and watcher.rs:73-87 sends
\* FileChanged with the metadata probed
FileWritten(p) ==
    /\ nchanges < MaxChanges
    /\ disk' = [disk EXCEPT ![p] = nchanges + 2]
    /\ nchanges' = nchanges + 1
    /\ proxyq' = Append(proxyq, UserEvent("FileChanged", p, nchanges + 2))
    /\ UNCHANGED <<pending, urgentq, thumbq, stale>>
    /\ UNCHANGED <<cacheVars, appVars>>
    /\ UNCHANGED otherVars

\* a file is removed, and watcher.rs:95-98 sends FileDeleted
FileRemoved(p) ==
    /\ disk[p] # 0
    /\ nchanges < MaxChanges
    /\ disk' = [disk EXCEPT ![p] = 0]
    /\ nchanges' = nchanges + 1
    /\ proxyq' = Append(proxyq, UserEvent("FileDeleted", p, 0))
    /\ UNCHANGED <<pending, urgentq, thumbq, stale>>
    /\ UNCHANGED <<cacheVars, appVars>>
    /\ UNCHANGED otherVars

\* --------------------------------------------- discovery's events handled

\* The events of the discovery thread reach the event loop in the order
\* they were sent (devents); `delivered` counts those already handled. The
\* watcher's events (proxyq) are handled in between, in any interleaving.

\* ImageSlot (the other variants)
PendingMetadata ==
    [slot |-> "PendingMetadata", path |-> 0, width |-> 0, height |-> 0]
ErrorSlot == [slot |-> "Error", path |-> 0, width |-> 0, height |-> 0]

\* the next discovery event is of type t, and the event loop still runs
NextDiscoveryEvent(t) ==
    /\ ~exited
    /\ delivered < Len(devents)
    /\ devents[delivered + 1].type = t

\* if let Some(slot) = list.get_mut(idx) { *slot = s; }
SetSlot(list, idx, s) ==
    IF idx < Len(list) THEN [list EXCEPT ![idx + 1] = s] ELSE list

\* .iter().any(|slot| matches!(slot, ImageSlot::MetadataLoaded(_)))
HasValidImages(list) ==
    \E i \in 1..Len(list) : list[i].slot = "MetadataLoaded"

\* app.rs:930-933   AppEvent::InitialCount
HandleInitialCount ==
    /\ NextDiscoveryEvent("InitialCount")
    /\ all_images' = [i \in 1..devents[delivered + 1].idx |-> PendingMetadata]
    /\ images' = [i \in 1..devents[delivered + 1].idx |-> PendingMetadata]
    /\ delivered' = delivered + 1
    /\ UNCHANGED <<current_index, filter_text, discovery_complete, exited>>
    /\ UNCHANGED <<loaderVars, cacheVars, discVars>>
    /\ UNCHANGED <<arcVars, pixelVars, gifVars, thumbVars, fmtVars, reqVars>>

\* app.rs:934-951   AppEvent::MetadataLoaded
HandleMetadataLoaded ==
    /\ NextDiscoveryEvent("MetadataLoaded")
    /\ LET ev   == devents[delivered + 1]
           item == MetadataSlot(ev.path, DiskWidth(ev.path), DiskHeight(ev.path))
           all  == SetSlot(all_images, ev.idx, item)
       IN  /\ all_images' = all
           /\ IF filter_text = ""
              THEN /\ images' = SetSlot(images, ev.idx, item)
                   /\ UNCHANGED current_index
              ELSE /\ images' = Filtered(all, filter_text)
                   /\ current_index' = 0
    /\ delivered' = delivered + 1
    /\ UNCHANGED <<filter_text, discovery_complete, exited>>
    /\ UNCHANGED <<loaderVars, cacheVars, discVars>>
    /\ UNCHANGED <<arcVars, pixelVars, gifVars, thumbVars, fmtVars, reqVars>>

\* app.rs:952-959   AppEvent::MetadataError
HandleMetadataError ==
    /\ NextDiscoveryEvent("MetadataError")
    /\ all_images' = SetSlot(all_images, devents[delivered + 1].idx, ErrorSlot)
    /\ images' = SetSlot(images, devents[delivered + 1].idx, ErrorSlot)
    /\ delivered' = delivered + 1
    /\ UNCHANGED <<current_index, filter_text, discovery_complete, exited>>
    /\ UNCHANGED <<loaderVars, cacheVars, discVars>>
    /\ UNCHANGED <<arcVars, pixelVars, gifVars, thumbVars, fmtVars, reqVars>>

\* app.rs:960-972   AppEvent::DiscoveryComplete
HandleDiscoveryComplete ==
    /\ NextDiscoveryEvent("DiscoveryComplete")
    /\ discovery_complete' = TRUE
    /\ exited' = ~HasValidImages(all_images)
    /\ delivered' = delivered + 1
    /\ UNCHANGED appVars
    /\ UNCHANGED <<loaderVars, cacheVars, discVars>>
    /\ UNCHANGED <<arcVars, pixelVars, gifVars, thumbVars, fmtVars, reqVars>>

\* ------------------------------------------------------- Arc<LoadedImage>

\* The cache hands out clones of an Arc<LoadedImage>; a renderer or a worker
\* may keep one while the event loop mutates the current image. One path is
\* followed: the current item's.
Holders == 1..MaxHolders
\* the cache's Arc, arc_image, loaded_image, and one per holder
Objects == 1..(MaxHolders + 3)
NoObject == [content |-> NoVal, strong |-> 0]
NoHold == [obj |-> 0, seen |-> NoVal]

\* Arc::clone / drop
Retained(h, o) == [h EXCEPT ![o].strong = @ + 1]
Dropped(h, o) ==
    IF h[o].strong = 1 THEN [h EXCEPT ![o] = NoObject]
    ELSE [h EXCEPT ![o].strong = @ - 1]
\* Arc::new's allocation
FreeObject(h) == CHOOSE o \in Objects : h[o].strong = 0 /\ \A n \in Objects : h[n].strong = 0 => o <= n

\* a make_mut that never copies
MakeMutInPlace(h, o) == [heap |-> h, obj |-> o]

\* app.rs:204   Arc::make_mut(&mut loaded_image): the Arc's own object when
\* it is the only strong reference, else a fresh copy the Arc moves to
MakeMut(h, o) ==
    IF h[o].strong = 1
    THEN [heap |-> h, obj |-> o]
    ELSE [heap |-> [Dropped(h, o) EXCEPT ![FreeObject(h)] =
                      [content |-> h[o].content, strong |-> 1]],
          obj |-> FreeObject(h)]

\* ImagePixelsLoaded: Arc::new(img) moved into the weighted store
ArcLoad ==
    /\ cacheObj = 0
    /\ heap' = [heap EXCEPT ![FreeObject(heap)] =
                  [content |-> DiskImage(1), strong |-> 1]]
    /\ cacheObj' = FreeObject(heap)
    /\ UNCHANGED holders
    /\ UNCHANGED <<pixelVars, gifVars, thumbVars, fmtVars, loopVars, reqVars>>
    /\ UNCHANGED <<loaderVars, cacheVars, discVars, appVars>>

\* a holder calls get_image and keeps the clone
ArcHold(k) ==
    /\ cacheObj # 0
    /\ holders[k] = NoHold
    /\ heap' = Retained(heap, cacheObj)
    /\ holders' = [holders EXCEPT ![k] =
                     [obj |-> cacheObj, seen |-> heap[cacheObj].content]]
    /\ UNCHANGED cacheObj
    /\ UNCHANGED <<pixelVars, gifVars, thumbVars, fmtVars, loopVars, reqVars>>
    /\ UNCHANGED <<loaderVars, cacheVars, discVars, appVars>>

\* the holder drops its clone
ArcRelease(k) ==
    /\ holders[k] # NoHold
    /\ heap' = Dropped(heap, holders[k].obj)
    /\ holders' = [holders EXCEPT ![k] = NoHold]
    /\ UNCHANGED cacheObj
    /\ UNCHANGED <<pixelVars, gifVars, thumbVars, fmtVars, loopVars, reqVars>>
    /\ UNCHANGED <<loaderVars, cacheVars, discVars, appVars>>

\* app.rs:199-217 on the Arcs: get (arc_image), clone (loaded_image),
\* make_mut, f, insert_image (the store drops the Arc it held and keeps
\* loaded_image), and arc_image dropped at the end of the block
ArcMutate(dims) ==
    /\ cacheObj # 0
    /\ LET got   == Retained(Retained(heap, cacheObj), cacheObj)
           mm    == MakeMut(got, cacheObj)
           done  == [mm.heap EXCEPT ![mm.obj].content =
                       IF dims THEN Rotated(@) ELSE Flipped(@)]
       IN  /\ heap' = Dropped(Dropped(done, cacheObj), cacheObj)
           /\ cacheObj' = mm.obj
    /\ UNCHANGED holders
    /\ UNCHANGED <<pixelVars, gifVars, thumbVars, fmtVars, loopVars, reqVars>>
    /\ UNCHANGED <<loaderVars, cacheVars, discVars, appVars>>

\* moka drops the entry: the store's Arc is dropped
ArcEvict ==
    /\ cacheObj # 0
    /\ heap' = Dropped(heap, cacheObj)
    /\ cacheObj' = 0
    /\ UNCHANGED holders
    /\ UNCHANGED <<pixelVars, gifVars, thumbVars, fmtVars, loopVars, reqVars>>
    /\ UNCHANGED <<loaderVars, cacheVars, discVars, appVars>>

\* ------------------------------------------------------ rotate and flip

\* A frame's pixels are kept row by row, pixel (x, y) of a w-wide image at
\* position y*w + x + 1; one RGBA pixel is one element.
NoImage == [width |-> 0, height |-> 0, frames |-> <<>>]

\* a from_raw that wants a buffer longer than the image
FromRawLonger(w, h, pixels) == Len(pixels) > w * h

\* image_item.rs:199   ImageBuffer::from_raw is None when the buffer is
\* shorter than width*height pixels
FromRaw(w, h, pixels) == Len(pixels) >= w * h

\* image::imageops::rotate90: source (x, y) goes to (h - 1 - y, x) of an
\* h-wide result
Rotate90(w, h, pixels) ==
    [i \in 1..(w * h) |->
        LET x2 == (i - 1) % h
            y2 == (i - 1) \div h
        IN  pixels[(h - 1 - x2) * w + y2 + 1]]

\* a counter-clockwise turn that turns clockwise
Rotate270Clockwise(w, h, pixels) == Rotate90(w, h, pixels)

\* a horizontal flip that turns the buffer instead
FlipHorizontalTurned(w, h, pixels) == Rotate90(w, h, pixels)

\* image::imageops::rotate270: source (x, y) goes to (y, w - 1 - x)
Rotate270(w, h, pixels) ==
    [i \in 1..(w * h) |->
        LET x2 == (i - 1) % h
            y2 == (i - 1) \div h
        IN  pixels[x2 * w + (w - 1 - y2) + 1]]

\* image::imageops::flip_horizontal: source (x, y) goes to (w - 1 - x, y)
FlipHorizontalPixels(w, h, pixels) ==
    [i \in 1..(w * h) |->
        LET x2 == (i - 1) % w
            y2 == (i - 1) \div w
        IN  pixels[y2 * w + (w - 1 - x2) + 1]]

\* image::imageops::flip_vertical: source (x, y) goes to (x, h - 1 - y)
FlipVerticalPixels(w, h, pixels) ==
    [i \in 1..(w * h) |->
        LET x2 == (i - 1) % w
            y2 == (i - 1) \div w
        IN  pixels[(h - 1 - y2) * w + x2 + 1]]

\* image_item.rs:196-217   rotate: every frame is taken out of the image,
\* rotated when it makes a width x height buffer and left empty otherwise;
\* width and height are swapped once some frame was rotated
RotateImage(img, clockwise) ==
    LET w == img.width
        h == img.height
        some == \E k \in 1..Len(img.frames) : FromRaw(w, h, img.frames[k])
    IN  [width  |-> IF some THEN h ELSE w,
         height |-> IF some THEN w ELSE h,
         frames |-> [k \in 1..Len(img.frames) |->
                       IF FromRaw(w, h, img.frames[k])
                       THEN IF clockwise THEN Rotate90(w, h, img.frames[k])
                            ELSE Rotate270(w, h, img.frames[k])
                       ELSE <<>>]]

\* image_item.rs:219-229   flip_horizontal
FlipHorizontalImage(img) ==
    [img EXCEPT !.frames =
        [k \in 1..Len(img.frames) |->
           IF FromRaw(img.width, img.height, img.frames[k])
           THEN FlipHorizontalPixels(img.width, img.height, img.frames[k])
           ELSE <<>>]]

\* image_item.rs:231-241   flip_vertical
FlipVerticalImage(img) ==
    [img EXCEPT !.frames =
        [k \in 1..Len(img.frames) |->
           IF FromRaw(img.width, img.height, img.frames[k])
           THEN FlipVerticalPixels(img.width, img.height, img.frames[k])
           ELSE <<>>]]

\* a decoder's result: n frames of exactly w*h pixels, every pixel of every
\* frame told apart from the others
DecodedImage(w, h, n) ==
    [width |-> w, height |-> h,
     frames |-> [k \in 1..n |-> [i \in 1..(w * h) |-> (k - 1) * w * h + i]]]

\* app.rs:577-594   Action::RotateCW, Action::RotateCCW
Rotate(clockwise) ==
    /\ loaded # NoImage
    /\ Len(ops) < MaxOps
    /\ loaded' = RotateImage(loaded, clockwise)
    /\ ops' = Append(ops, IF clockwise THEN "RotateCW" ELSE "RotateCCW")
    /\ UNCHANGED decoded
    /\ UNCHANGED <<arcVars, gifVars, thumbVars, fmtVars, loopVars, reqVars>>
    /\ UNCHANGED <<loaderVars, cacheVars, discVars, appVars>>

\* app.rs:595-600   Action::FlipHorizontal
FlipHorizontal ==
    /\ loaded # NoImage
    /\ Len(ops) < MaxOps
    /\ loaded' = FlipHorizontalImage(loaded)
    /\ ops' = Append(ops, "FlipHorizontal")
    /\ UNCHANGED decoded
    /\ UNCHANGED <<arcVars, gifVars, thumbVars, fmtVars, loopVars, reqVars>>
    /\ UNCHANGED <<loaderVars, cacheVars, discVars, appVars>>

\* Action::FlipVertical
FlipVertical ==
    /\ loaded # NoImage
    /\ Len(ops) < MaxOps
    /\ loaded' = FlipVerticalImage(loaded)
    /\ ops' = Append(ops, "FlipVertical")
    /\ UNCHANGED decoded
    /\ UNCHANGED <<arcVars, gifVars, thumbVars, fmtVars, loopVars, reqVars>>
    /\ UNCHANGED <<loaderVars, cacheVars, discVars, appVars>>

\* ------------------------------------------------------------ decode_gif

NotDecoded == [ok |-> FALSE, delays |-> <<"none">>]
Err == [ok |-> FALSE, delays |-> <<>>]
\* Delay::numer_denom_ms of a frame
Delays == [numer : 0..MaxNumer, denom : 0..MaxDenom]

\* loader.rs:374-379   the frame's delay in milliseconds
FrameDelay(f) ==
    IF f.denom = 0 THEN DefaultDelayMs ELSE f.numer \div f.denom

\* loader.rs:396-418   decode_static on the same bytes: an error, or one
\* frame that never advances
DecodeStatic == {Err, [ok |-> TRUE, delays |-> <<DurationMax>>]}

\* loader.rs:355-392   decode_gif
DecodeGif ==
    /\ gif_result = NotDecoded
    /\ IF gif_frames = <<>>
       THEN gif_result' \in DecodeStatic
       ELSE gif_result' = [ok |-> TRUE,
                           delays |-> [k \in 1..Len(gif_frames) |->
                                         FrameDelay(gif_frames[k])]]
    /\ UNCHANGED gif_frames
    /\ UNCHANGED <<arcVars, pixelVars, thumbVars, fmtVars, loopVars, reqVars>>
    /\ UNCHANGED <<loaderVars, cacheVars, discVars, appVars>>

\* -------------------------------------------------------- load_thumbnail

\* Integers of up to 62 bits, as hi * LimbBase^2 + mid * LimbBase + lo.
Carry(x) ==
    LET m == x.mid + x.lo \div LimbBase
    IN  [hi |-> x.hi + m \div LimbBase, mid |-> m % LimbBase, lo |-> x.lo % LimbBase]
BigOfInt(n) == Carry([hi |-> 0, mid |-> 0, lo |-> n])
BigTimes(x, n) == Carry([hi |-> x.hi * n, mid |-> x.mid * n, lo |-> x.lo * n])
BigPlus(x, n) == Carry([x EXCEPT !.lo = @ + n])
BigLess(x, y) ==
    \/ x.hi < y.hi
    \/ x.hi = y.hi /\ x.mid < y.mid
    \/ x.hi = y.hi /\ x.mid = y.mid /\ x.lo < y.lo
\* x - y for x >= y
BigMinus(x, y) ==
    LET bl == IF x.lo < y.lo THEN 1 ELSE 0
        bm == IF x.mid - bl < y.mid THEN 1 ELSE 0
    IN  [hi  |-> x.hi - y.hi - bm,
         mid |-> x.mid - bl - y.mid + bm * LimbBase,
         lo  |-> x.lo - y.lo + bl * LimbBase]
BigHalf(x) ==
    [hi  |-> x.hi \div 2,
     mid |-> (x.mid + (x.hi % 2) * LimbBase) \div 2,
     lo  |-> (x.lo + (x.mid % 2) * LimbBase) \div 2]
BigOdd(x) == x.lo % 2 = 1
BigZero == BigOfInt(0)
\* 2^52 and 2^53
Two52 == [hi |-> 4096, mid |-> 0, lo |-> 0]
Two53 == [hi |-> 8192, mid |-> 0, lo |-> 0]

\* A positive finite f64 is man * 2^exp with 2^52 <= man < 2^53.
RECURSIVE Normalized(_, _)
Normalized(m, e) ==
    IF BigLess(m, Two52) THEN Normalized(BigTimes(m, 2), e - 1)
    ELSE [man |-> m, exp |-> e]

\* round to nearest, ties to even: m is the significand cut off, guard the
\* first bit dropped, sticky whether a later one was set
Rounded(m, e, guard, sticky) ==
    LET up == guard /\ (sticky \/ BigOdd(m))
        r  == IF up THEN BigPlus(m, 1) ELSE m
    IN  IF r = Two53 THEN [man |-> Two52, exp |-> e + 1]
        ELSE [man |-> r, exp |-> e]

\* cut a product down to 53 bits
RECURSIVE Shortened(_, _, _, _)
Shortened(m, e, guard, sticky) ==
    IF BigLess(m, Two53) THEN Rounded(m, e, guard, sticky)
    ELSE Shortened(BigHalf(m), e + 1, BigOdd(m), sticky \/ guard)

\* loader.rs:306   `width as f64`: exact for a u32, n >= 1
F64OfInt(n) == Normalized(BigOfInt(n), 0)

\* n more bits of the quotient by d: s.quot the bits so far, s.rest what
\* is left to divide, below 2d
RECURSIVE QuotientBits(_, _, _)
QuotientBits(s, d, n) ==
    IF n = 0 THEN s
    ELSE IF BigLess(s.rest, d)
         THEN QuotientBits([quot |-> BigTimes(s.quot, 2),
                            rest |-> BigTimes(s.rest, 2)], d, n - 1)
         ELSE QuotientBits([quot |-> BigPlus(BigTimes(s.quot, 2), 1),
                            rest |-> BigTimes(BigMinus(s.rest, d), 2)], d, n - 1)

\* f64 division: the exact quotient rounded to 53 bits
F64Div(x, y) ==
    LET small == BigLess(x.man, y.man)
        r0 == IF small THEN BigTimes(x.man, 2) ELSE x.man
        e0 == x.exp - y.exp - (IF small THEN 1 ELSE 0)
        qb == QuotientBits([quot |-> BigZero, rest |-> r0], y.man,
                           SignificandBits + 1)
    IN  Rounded(BigHalf(qb.quot), e0 - (SignificandBits - 1),
                BigOdd(qb.quot), qb.rest # BigZero)

\* f64 multiplication of `size as f64` by y: the exact product rounded
F64Times(n, y) == Shortened(BigTimes(y.man, n), y.exp, FALSE, FALSE)

\* x >= 1.0
F64AtLeastOne(x) == x.exp >= 0 - (SignificandBits - 1)

\* `as u32` of a value below 2^31: the fraction is dropped
RECURSIVE ShiftedDown(_, _)
ShiftedDown(m, k) ==
    IF k = 0 \/ m = BigZero THEN m ELSE ShiftedDown(BigHalf(m), k - 1)
F64ToU32(x) ==
    LET m == ShiftedDown(x.man, 0 - x.exp)
    IN  m.mid * LimbBase + m.lo

Max(a, b) == IF a >= b THEN a ELSE b

\* loader.rs:306-314   the thumbnail's width and height
ThumbnailDims(w, h, size) ==
    LET aspect == F64Div(F64OfInt(w), F64OfInt(h))
        nwidth == IF F64AtLeastOne(aspect) THEN size
                  ELSE F64ToU32(F64Times(size, aspect))
        nheight == IF F64AtLeastOne(aspect)
                   THEN F64ToU32(F64Div(F64OfInt(size), aspect))
                   ELSE size
    IN  <<Max(nwidth, 1), Max(nheight, 1)>>

\* loader.rs:298-327   load_thumbnail; resize returns an image of the
\* dimensions asked for
MakeThumbnail ==
    /\ thumb_dims = <<0, 0>>
    /\ thumb_dims' = ThumbnailDims(thumb_req.width, thumb_req.height, thumb_req.size)
    /\ UNCHANGED thumb_req
    /\ UNCHANGED <<arcVars, pixelVars, gifVars, fmtVars, loopVars, reqVars>>
    /\ UNCHANGED <<loaderVars, cacheVars, discVars, appVars>>

\* ------------------------------------------------------- identify_format

\* A file's bytes, one element a byte; a first element may stand for a whole
\* signature of infer's table: of a GIF, of a PNG, of an MP4, and one that
\* infer would report as image/svg+xml.
Signatures == {"GIF8", "PNG", "ftyp", "svgm"}
Filler == "."

Mime(top, sub) == [top |-> top, sub |-> sub]

\* loader.rs:28-29   infer::get(data), and "unknown/raw" for None
Sniffed(data) ==
    IF data = <<>> THEN Mime("unknown", "raw")
    ELSE CASE data[1] = "svgm" -> Mime("image", "svg+xml")
           [] data[1] = "GIF8" -> Mime("image", "gif")
           [] data[1] = "PNG" -> Mime("image", "png")
           [] data[1] = "ftyp" -> Mime("video", "mp4")
           [] OTHER -> Mime("unknown", "raw")

\* char::to_lowercase
ToLowercase(c) ==
    CASE c = "S" -> "s"
      [] c = "V" -> "v"
      [] c = "G" -> "g"
      [] OTHER -> c

\* loader.rs:37   String::from_utf8_lossy(data).to_lowercase()
Lowered(data) == [i \in 1..Len(data) |-> ToLowercase(data[i])]

\* str::contains
Contains(data, pat) ==
    \E i \in 1..(Len(data) - Len(pat) + 1) :
      SubSeq(data, i, i + Len(pat) - 1) = pat

SvgTag == <<"<", "s", "v", "g">>

\* a read that takes the whole file
ReadWhole(bytes) == bytes

\* loader.rs:24-26   file.read into a buffer of PrefixBytes bytes
ReadPrefix(bytes) ==
    SubSeq(bytes, 1, IF Len(bytes) < PrefixBytes THEN Len(bytes) ELSE PrefixBytes)

NotIdentified == [ok |-> FALSE, format |-> "not identified"]
Format(f) == [ok |-> TRUE, format |-> f]
Unrecognized == [ok |-> FALSE, format |-> "error"]

\* loader.rs:21-45   identify_format
IdentifyFormat(file) ==
    IF ~file.readable THEN Unrecognized
    ELSE LET data == ReadPrefix(file.bytes)
             mime == Sniffed(data)
         IN  IF mime = Mime("image", "svg+xml") THEN Format("Svg")
             ELSE IF mime = Mime("image", "gif") THEN Format("Gif")
             ELSE IF mime.top = "image" THEN Format("Static")
             ELSE IF Contains(Lowered(data), SvgTag) THEN Format("Svg")
             ELSE Unrecognized

\* loader.rs:96   identify_format(&path)
IdentifyFile ==
    /\ fmt_result = NotIdentified
    /\ fmt_result' = IdentifyFormat(fmt_file)
    /\ UNCHANGED <<fmt_file, fmt_kept>>
    /\ UNCHANGED <<arcVars, pixelVars, gifVars, thumbVars, loopVars, reqVars>>
    /\ UNCHANGED <<loaderVars, cacheVars, discVars, appVars>>

\* loader.rs:96-99   filter_map: Some for Ok, None for Err
KeepFile ==
    /\ fmt_result # NotIdentified
    /\ fmt_kept = "undecided"
    /\ fmt_kept' = IF fmt_result.ok THEN "task" ELSE "dropped"
    /\ UNCHANGED <<fmt_file, fmt_result>>
    /\ UNCHANGED <<arcVars, pixelVars, gifVars, thumbVars, loopVars, reqVars>>
    /\ UNCHANGED <<loaderVars, cacheVars, discVars, appVars>>

\* ---------------------------------------------------------- specifications

\* the lane after n request_thumbnail calls that no worker has popped yet
Prefilled(n) == [i \in 1..n |-> LoadThumbnail(n - i + 1, PathOf(n - i + 1))]

InitWith(n) ==
    /\ urgent = <<>>
    /\ stack = Prefilled(n)
    /\ mutex = Free
    /\ notified = {}
    /\ cpc = "idle"
    /\ creq = NoReq
    /\ wpc = [w \in Workers |-> "try"]
    /\ cur = [w \in Workers |-> NoReq]
    /\ events = EmptyBag
    /\ nextId = n
    /\ nUrgent = 0
    /\ nBackground = 0
    /\ taken = {}
    /\ dropped = {}
    /\ lanePre = <<>>
    /\ idleSubmit = {}

\* CacheManager::new: both stores and the side list are empty
CacheEmpty ==
    /\ image_cache = [p \in AllPaths |-> NoVal]
    /\ thumb_cache = [p \in AllPaths |-> NoVal]
    /\ oversized = <<>>
    /\ lastOp = OtherOp
    /\ lru = <<>>

\* Loader::new has spawned the workers and none has run yet; the consumer
\* has either pushed nothing, or has already pushed thumbnail requests up to
\* one below the cap or up to the cap
\* spawn_discovery_worker has not been called
DiscoveryOff ==
    /\ fclass = [f \in Files |-> "other"]
    /\ roots = <<>>
    /\ files = <<>>
    /\ tasks = <<>>
    /\ probing = {}
    /\ devents = <<>>
    /\ dpc = "off"

\* App::new: no slot yet
AppEmpty ==
    /\ all_images = <<>>
    /\ images = <<>>
    /\ current_index = 0
    /\ filter_text = ""

\* no Arc followed
ArcOff ==
    /\ heap = [o \in Objects |-> NoObject]
    /\ cacheObj = 0
    /\ holders = [k \in Holders |-> NoHold]

\* no pixels followed
PixelsOff ==
    /\ loaded = NoImage
    /\ decoded = NoImage
    /\ ops = <<>>

\* no GIF followed
GifOff ==
    /\ gif_frames = <<>>
    /\ gif_result = Err

\* no thumbnail followed
ThumbOff ==
    /\ thumb_req = [width |-> 0, height |-> 0, size |-> 0]
    /\ thumb_dims = <<0, 0>>

\* no file identified
FmtOff ==
    /\ fmt_file = [readable |-> FALSE, bytes |-> <<>>]
    /\ fmt_result = NotIdentified
    /\ fmt_kept = "undecided"

\* no discovery event handled
LoopOff ==
    /\ delivered = 0
    /\ discovery_complete = FALSE
    /\ exited = FALSE

\* no file on disk, nothing requested
ReqIdle(paths) ==
    /\ pending = {}
    /\ urgentq = <<>>
    /\ thumbq = <<>>
    /\ proxyq = <<>>
    /\ disk = [p \in paths |-> 1]
    /\ nchanges = 0
    /\ stale = {}

ReqOff == ReqIdle({})

FunctionsOff ==
    ArcOff /\ PixelsOff /\ GifOff /\ ThumbOff /\ FmtOff /\ LoopOff

LabOff == FunctionsOff /\ ReqOff

Init ==
    /\ \E n \in {0, BackgroundCap - 1, BackgroundCap} : InitWith(n)
    /\ CacheEmpty
    /\ DiscoveryOff
    /\ AppEmpty
    /\ LabOff

Next ==
    \/ RequestImage
    \/ ThumbLock
    \/ ThumbPush
    \/ ThumbCap
    \/ ThumbNotify
    \/ \E w \in Workers : WorkerStep(w)

Spec == Init /\ [][Next]_vars

\* the loader with its lanes empty at the start, every worker scheduled
\* again and again, and the consumer finishing a request_thumbnail it began
FairInit == InitWith(0) /\ CacheEmpty /\ DiscoveryOff /\ AppEmpty /\ LabOff

FairSpec ==
    /\ FairInit
    /\ [][Next]_vars
    /\ \A w \in Workers : WF_vars(WorkerStep(w))
    /\ WF_vars(ThumbPush \/ ThumbCap \/ ThumbNotify)

\* the cache manager alone, called from the event loop
CacheInit == InitWith(0) /\ CacheEmpty /\ DiscoveryOff /\ AppEmpty /\ LabOff

CacheNext ==
    \/ \E p \in CachePaths : GetImage(p)
    \/ \E p \in CachePaths : \E img \in Images : InsertImage(p, img)
    \/ \E p \in CachePaths : GetThumbnail(p)
    \/ \E p \in CachePaths : \E t \in Thumbs : InsertThumbnail(p, t)
    \/ \E p \in CachePaths : Remove(p)

CacheSpec == CacheInit /\ [][CacheNext]_vars

\* the image calls alone, over one path more than the side list holds
SideNext ==
    \/ \E p \in SidePaths : GetImage(p)
    \/ \E p \in SidePaths : \E img \in Images : InsertImage(p, img)
    \/ \E p \in SidePaths : Remove(p)

SideSpec == CacheInit /\ [][SideNext]_vars

\* spawn_discovery_worker(paths, ..) has just spawned the thread
DiscoveryInit ==
    /\ InitWith(0)
    /\ CacheEmpty
    /\ AppEmpty
    /\ LabOff
    /\ fclass \in [Files -> Classes]
    /\ roots \in RootLists
    /\ files = <<>>
    /\ tasks = <<>>
    /\ probing = {}
    /\ devents = <<>>
    /\ dpc = "walk"

DiscoveryNext ==
    \/ Walk
    \/ SortFiles
    \/ Identify
    \/ SendInitialCount
    \/ \E i \in 0..(2 * NumFiles) : Probe(i)
    \/ SendDiscoveryComplete

DiscoverySpec == DiscoveryInit /\ [][DiscoveryNext]_vars

\* the event loop after discovery: every file was recognized and probed,
\* DiscoveryComplete has been handled, nothing is loaded yet
AppInit ==
    /\ InitWith(0)
    /\ CacheEmpty
    /\ DiscoveryOff
    /\ FunctionsOff
    /\ ReqIdle(CachePaths)
    /\ all_images = [i \in CachePaths |-> MetadataSlot(i, DiskWidth(i), DiskHeight(i))]
    /\ images = [i \in CachePaths |-> MetadataSlot(i, DiskWidth(i), DiskHeight(i))]
    /\ current_index = 0
    /\ filter_text = ""

AppNext ==
    \/ \E start \in 0..(NumCachePaths - 1) : RedrawGrid(start)
    \/ RedrawSingle
    \/ ProcessUrgent
    \/ ProcessThumbnail
    \/ \E p \in CachePaths : ImagePixelsLoaded(p)
    \/ \E p \in CachePaths : ThumbnailLoaded(p)
    \/ \E dims \in BOOLEAN : MutateCurrentImage(dims)
    \/ \E t \in FilterTexts : SetFilter(t)
    \/ NextImage
    \/ \E p \in CachePaths : EvictImage(p)

AppSpec == AppInit /\ [][AppNext]_vars

\* the same with the watcher: files change and disappear while the app runs
WatchNext ==
    \/ AppNext
    \/ \E p \in CachePaths : LoadError(p)
    \/ \E p \in CachePaths : FileChanged(p)
    \/ \E p \in CachePaths : FileDeleted(p)
    \/ \E p \in CachePaths : FileWritten(p)
    \/ \E p \in CachePaths : FileRemoved(p)

WatchSpec == AppInit /\ [][WatchNext]_vars

\* A folder of one file more than the thumbnail lane takes: the grid has
\* requested the thumbnails of the first files in order, up to the cap,
\* before any worker ran. The view then shows the head or the tail of the
\* list while the workers drain the lane and the event loop handles the
\* results.
LanePaths == 1..(BackgroundCap + 1)

RequestedLane(n) == [i \in 1..n |-> Request("thumb", n - i + 1)]

PendingStarts == {0} \cup ((BackgroundCap - VisibleCells + 1)..BackgroundCap)

PendingInit ==
    /\ InitWith(0)
    /\ DiscoveryOff
    /\ FunctionsOff
    /\ image_cache = [p \in LanePaths |-> NoVal]
    /\ thumb_cache = [p \in LanePaths |-> NoVal]
    /\ oversized = <<>>
    /\ lastOp = OtherOp
    /\ lru = <<>>
    /\ disk = [p \in LanePaths |-> 1]
    /\ pending = 1..BackgroundCap
    /\ thumbq = RequestedLane(BackgroundCap)
    /\ urgentq = <<>>
    /\ proxyq = <<>>
    /\ nchanges = 0
    /\ stale = {}
    /\ all_images = [i \in LanePaths |-> MetadataSlot(i, DiskWidth(i), DiskHeight(i))]
    /\ images = [i \in LanePaths |-> MetadataSlot(i, DiskWidth(i), DiskHeight(i))]
    /\ current_index = 0
    /\ filter_text = ""

\* a worker processes the front request of the lane while fewer than
\* MaxQueued results wait for the event loop
DrainLane == Len(proxyq) < MaxQueued /\ ProcessThumbnail

HandleThumbnail == \E p \in LanePaths : ThumbnailLoaded(p)

PendingNext ==
    \/ \E start \in PendingStarts : RedrawGrid(start)
    \/ DrainLane
    \/ HandleThumbnail

\* the workers and the event loop keep running
PendingSpec ==
    /\ PendingInit
    /\ [][PendingNext]_vars
    /\ WF_vars(DrainLane)
    /\ WF_vars(HandleThumbnail)

\* Start-up: the discovery thread walks one directory and probes its files
\* while the event loop handles its events, the watcher's events and the
\* filter typed, in the order they arrive. The watcher reports the image
\* files rewritten and the files removed.
IngestInit ==
    /\ InitWith(0)
    /\ CacheEmpty
    /\ AppEmpty
    /\ FunctionsOff
    /\ ReqIdle(Files)
    /\ fclass \in [Files -> Classes]
    /\ roots = <<Dir>>
    /\ files = <<>>
    /\ tasks = <<>>
    /\ probing = {}
    /\ devents = <<>>
    /\ dpc = "walk"

ImageFiles == {f \in Files : fclass[f] = "image"}

IngestNext ==
    \/ Walk
    \/ SortFiles
    \/ Identify
    \/ SendInitialCount
    \/ \E i \in 0..(NumFiles - 1) : Probe(i)
    \/ SendDiscoveryComplete
    \/ HandleInitialCount
    \/ HandleMetadataLoaded
    \/ HandleMetadataError
    \/ HandleDiscoveryComplete
    \/ \E p \in ImageFiles : FileWritten(p)
    \/ \E p \in Files : FileRemoved(p)
    \/ ~exited /\ \E p \in Files : FileChanged(p)
    \/ ~exited /\ \E p \in Files : FileDeleted(p)
    \/ ~exited /\ \E t \in FilterTexts : SetFilter(t)

IngestSpec == IngestInit /\ [][IngestNext]_vars

\* the Arcs of the current item's image, the rest of the program idle
ArcNext ==
    \/ ArcLoad
    \/ \E k \in Holders : ArcHold(k)
    \/ \E k \in Holders : ArcRelease(k)
    \/ \E dims \in BOOLEAN : ArcMutate(dims)
    \/ ArcEvict

ArcSpec == FairInit /\ [][ArcNext]_vars

\* the loader, the cache, discovery and the list idle
ProgramOff ==
    InitWith(0) /\ CacheEmpty /\ DiscoveryOff /\ AppEmpty /\ ReqOff /\ LoopOff

\* rotations and flips of one decoded image
PixelInit ==
    /\ ProgramOff
    /\ ArcOff
    /\ GifOff
    /\ ThumbOff
    /\ FmtOff
    /\ \E w \in 1..MaxDim, h \in 1..MaxDim, n \in 1..MaxFrames :
         /\ loaded = DecodedImage(w, h, n)
         /\ decoded = loaded
    /\ ops = <<>>

PixelNext ==
    \/ \E clockwise \in BOOLEAN : Rotate(clockwise)
    \/ FlipHorizontal
    \/ FlipVertical

PixelSpec == PixelInit /\ [][PixelNext]_vars

\* one GIF file decoded
GifInit ==
    /\ ProgramOff
    /\ ArcOff
    /\ PixelsOff
    /\ ThumbOff
    /\ FmtOff
    /\ \E n \in 0..MaxGifFrames : gif_frames \in [1..n -> Delays]
    /\ gif_result = NotDecoded

GifNext == DecodeGif

GifSpec == GifInit /\ [][GifNext]_vars

\* one thumbnail made: every small file and size, and a 200 x 100 file at
\* size 64
ThumbRequests ==
    [width : 1..MaxSide, height : 1..MaxSide, size : 1..MaxSide]
      \cup {[width |-> 200, height |-> 100, size |-> 64]}

ThumbInit ==
    /\ ProgramOff
    /\ ArcOff
    /\ PixelsOff
    /\ GifOff
    /\ FmtOff
    /\ thumb_req \in ThumbRequests
    /\ thumb_dims = <<0, 0>>

ThumbNext == MakeThumbnail

ThumbSpec == ThumbInit /\ [][ThumbNext]_vars

\* one file identified: empty, or a first byte or signature, filler, a
\* spelling of the tag or of its first three letters, and filler; the tag
\* at the start, ending with the prefix, across its end, or after it
TagSpellings ==
    {<<"<", "s", "v", "g">>, <<"<", "S", "V", "G">>, <<"<", "S", "v", "g">>,
     <<"<", "s", "v">>}
TagStarts == {2, PrefixBytes - 3, PrefixBytes - 2, PrefixBytes + 1}

FileBytes(first, tag, at) ==
    <<first>> \o [i \in 1..(at - 2) |-> Filler] \o tag \o <<Filler>>

FormatFiles ==
    [readable : BOOLEAN,
     bytes : {<<>>} \cup {FileBytes(first, tag, at) :
                            first \in Signatures \cup {Filler},
                            tag \in TagSpellings, at \in TagStarts}]

FormatInit ==
    /\ ProgramOff
    /\ ArcOff
    /\ PixelsOff
    /\ GifOff
    /\ ThumbOff
    /\ fmt_file \in FormatFiles
    /\ fmt_result = NotIdentified
    /\ fmt_kept = "undecided"

FormatNext == IdentifyFile \/ KeepFile

FormatSpec == FormatInit /\ [][FormatNext]_vars

\* ------------------------------------------------------------------ claims

TakenIds == {r.id : r \in taken}
EventIds == {e.id : e \in BagToSet(events)}
Holding == {w \in Workers : cur[w] # NoReq}
HeldIds == {cur[w].id : w \in Holding}

\* C1: a background request submitted after an urgent request is never
\* dequeued while that urgent request is still waiting in the urgent lane.
UrgentBeforeLaterBackground ==
    \A b \in taken :
      b.kind = "thumb" =>
        \A i \in 1..Len(urgent) : urgent[i].id > b.id

\* C2: at the instant a worker pops a request from the background lane the
\* urgent lane is empty.
BackgroundPopFindsUrgentEmpty ==
    [][(\E r \in taken' \ taken : r.kind = "thumb") => urgent = <<>>]_vars

\* C3: urgent requests are dequeued in submission order: no urgent request
\* is dequeued while one submitted before it is still in the urgent lane.
UrgentFifo ==
    \A r \in taken :
      r.kind = "image" =>
        \A i \in 1..Len(urgent) : urgent[i].id > r.id

\* two workers hold the two urgent requests they dequeued one after the other
UrgentFifoWitness ==
    \E v \in Workers, w \in Workers :
      /\ cur[v].kind = "image"
      /\ cur[w].kind = "image"
      /\ cur[v].id < cur[w].id

\* C4: a push onto a lane that holds BackgroundCap requests removes exactly
\* one request, the one pushed earliest, and the pushed request is in the
\* lane when request_thumbnail returns.
CapDropsOldestKeepsNewest ==
    (cpc = "notify" /\ Len(lanePre) = BackgroundCap) =>
      /\ Len(stack) = BackgroundCap
      /\ stack[1] = creq
      /\ SubSeq(stack, 2, BackgroundCap) = SubSeq(lanePre, 1, BackgroundCap - 1)
      /\ Ids(lanePre) \ Ids(stack) = {lanePre[BackgroundCap].id}
      /\ \A i \in 1..Len(lanePre) : lanePre[i].id >= lanePre[BackgroundCap].id

\* request_thumbnail found the lane full and has passed the cap
CapDropWitness ==
    /\ cpc = "notify"
    /\ Len(lanePre) = BackgroundCap
    /\ dropped # {}

\* C5: whenever the background lane's mutex is free the lane holds at most
\* BackgroundCap requests.
LaneWithinCap == (mutex = Free) => Len(stack) <= BackgroundCap

\* the lane is full after a drop, and nobody holds the mutex
LaneAtCapWitness ==
    /\ mutex = Free
    /\ cpc = "idle"
    /\ Len(stack) = BackgroundCap
    /\ dropped # {}

\* C6: a worker that takes a request from the background lane takes the one
\* pushed most recently among those in the lane.
BackgroundLifo ==
    [][\A r \in taken' \ taken :
         r.kind = "thumb" => \A i \in 1..Len(stack) : stack[i].id <= r.id]_vars

\* a worker holds the thumbnail request pushed last while older ones wait
BackgroundLifoWitness ==
    \E w \in Workers :
      /\ cur[w].kind = "thumb"
      /\ nBackground >= 1
      /\ cur[w].id = nextId
      /\ Len(stack) >= 1

\* C7: under fair scheduling every request sent with request_image is
\* eventually dequeued by a worker.
UrgentEventuallyDequeued ==
    \A i \in 1..(MaxUrgent + MaxBackground) :
      (i \in Ids(urgent)) ~> (i \in TakenIds)

\* a request sent while every worker was blocked in recv_timeout or in the
\* condvar wait has been dequeued
IdleSubmitDequeuedWitness == idleSubmit \cap TakenIds # {}

\* C8: no request is processed twice: a request is in one place only (a
\* lane, a worker's hands, or answered), no two workers hold the same
\* request, no request is answered twice, and no urgent request is lost.
NoRequestTwice ==
    /\ BagCardinality(events) = Cardinality(EventIds)
    /\ Cardinality(HeldIds) = Cardinality(Holding)
    /\ HeldIds \cap EventIds = {}
    /\ (HeldIds \cup EventIds) \cap (Ids(urgent) \cup Ids(stack)) = {}
    /\ Cardinality(Ids(urgent)) = Len(urgent)
    /\ Cardinality(Ids(stack)) = Len(stack)
    /\ TakenIds = HeldIds \cup EventIds
    /\ Len(urgent) + Cardinality({r \in taken : r.kind = "image"}) = nUrgent

\* every worker holds a request while another request is already answered
RacingWorkersWitness ==
    /\ Holding = Workers
    /\ \E v \in Workers, w \in Workers : cur[v].kind # cur[w].kind
    /\ EventIds # {}

\* C9: every dequeued request yields exactly one result event, tagged with
\* its path and of the type of its kind or LoadError; a failed request is
\* not put back in a lane; a worker that is not processing holds nothing
\* and is back in its loop.
OneEventPerDequeued ==
    /\ \A r \in taken :
         IF r.id \in HeldIds
         THEN r.id \notin EventIds
         ELSE \E e \in BagToSet(events) :
                /\ e.id = r.id
                /\ e.path = r.path
                /\ e.type \in {"LoadError",
                               IF r.kind = "image" THEN "ImagePixelsLoaded"
                               ELSE "ThumbnailLoaded"}
                /\ CopiesIn(e, events) = 1
                /\ \A f \in BagToSet(events) : f.id = r.id => f = e
    /\ EventIds \subseteq TakenIds
    /\ \A e \in BagToSet(events) :
         e.type = "LoadError" => e.id \notin (Ids(urgent) \cup Ids(stack))
    /\ \A w \in Workers : (wpc[w] = "proc") <=> (cur[w] # NoReq)

\* one request failed, one succeeded, and a worker is processing a third
FailureThenNextWitness ==
    /\ \E e \in BagToSet(events) : e.type = "LoadError"
    /\ \E e \in BagToSet(events) : e.type # "LoadError"
    /\ \E w \in Workers : wpc[w] = "proc"

\* C10: right after remove(path), get_image(path) and get_thumbnail(path)
\* return None.
RemoveClearsPath ==
    lastOp.op = "remove" =>
      /\ GetImageResult(lastOp.path) = NoVal
      /\ GetThumbnailResult(lastOp.path) = NoVal

\* the removed path was in the weighted store, the side list and the
\* thumbnail store
RemoveFromAllThreeWitness == lastOp.op = "remove" /\ lastOp.hadAll

\* C11: no path is at once in the weighted image store and in the oversized
\* side list.
NoPathInBothStores ==
    \A p \in CachePaths :
      ~(MokaGet(image_cache, p) # NoVal /\ Position(oversized, p) # 0)

\* C12: an oversized image is taken at insertion, and get_image returns the
\* oversized image inserted last for a path for as long as the path was not
\* removed and fewer than OversizedCap other oversized paths were inserted
\* or found by get_image after its last use.
OversizedRetrievable ==
    \A i \in 1..Len(lru) : GetImageResult(lru[i].path) = lru[i].img

\* a fourth oversized path displaced one, and the least recently used of the
\* three kept, which also has a light image in the weighted store, is still
\* returned from the side list
OversizedKeptWitness ==
    /\ lastOp.op = "overflow"
    /\ MokaGet(image_cache, lru[1].path) # NoVal
    /\ GetImageResult(lru[1].path) = lru[1].img

\* C13: the side list holds at most OversizedCap entries and no path twice.
SideListBounded ==
    /\ Len(oversized) <= OversizedCap
    /\ \A i \in 1..Len(oversized) : \A j \in 1..Len(oversized) :
         oversized[i].path = oversized[j].path => i = j

\* the side list is full after an insert that found it full
SideListFullWitness ==
    /\ lastOp.op = "overflow"
    /\ Len(oversized) = OversizedCap

\* C14: right after an oversized insert for a path that was not among the
\* OversizedCap paths of the side list, the side list holds the new path and
\* the paths that were in it except the least recently used one: the paths
\* the order of last use keeps.
DisplacesLeastRecentlyUsed ==
    lastOp.op = "overflow" =>
      /\ Len(oversized) = OversizedCap
      /\ oversized[OversizedCap].path = lastOp.path
      /\ OversizedPaths(oversized) = LruPaths

\* the new path is last in the full side list, and the entries kept are not
\* in the order of their paths
LruDisplacedWitness ==
    /\ lastOp.op = "overflow"
    /\ Position(oversized, lastOp.path) = OversizedCap
    /\ oversized[1].path > oversized[2].path

\* C16: insert_thumbnail leaves the weighted image store and the side list
\* as they were, insert_image leaves the thumbnail store as it was, and
\* remove(path) leaves the entries of every other path as they were in the
\* two stores and in the side list.
FrameEffects ==
    [][/\ \A p \in CachePaths : \A t \in Thumbs :
            InsertThumbnail(p, t) =>
              /\ image_cache' = image_cache
              /\ oversized' = oversized
       /\ \A p \in CachePaths : \A img \in Images :
            InsertImage(p, img) => thumb_cache' = thumb_cache
       /\ \A p \in CachePaths :
            Remove(p) =>
              /\ \A q \in AllPaths \ {p} :
                   /\ MokaGet(image_cache', q) = MokaGet(image_cache, q)
                   /\ MokaGet(thumb_cache', q) = MokaGet(thumb_cache, q)
              /\ Retain(oversized', p) = Retain(oversized, p)]_vars

\* a path was removed while another path is in both stores and in the
\* side list
RemoveSparesOthersWitness ==
    /\ lastOp.op = "remove"
    /\ \E q \in CachePaths \ {lastOp.path} :
         /\ MokaGet(image_cache, q) # NoVal
         /\ MokaGet(thumb_cache, q) # NoVal
         /\ Position(oversized, q) # 0

\* the events sent so far that carry an index
MetadataEvents ==
    {k \in 1..Len(devents) :
       devents[k].type \in {"MetadataLoaded", "MetadataError"}}

\* the recognized files among those walked, once for every time they
\* were walked
RecognizedWalked == SelectSeq(files, Recognized)

CountFirstCompleteLast ==
    /\ \A k \in 1..Len(devents) : (devents[k].type = "InitialCount") <=> (k = 1)
    /\ \A k \in 1..Len(devents) :
         devents[k].type = "DiscoveryComplete" =>
           /\ k = Len(devents)
           /\ Cardinality(MetadataEvents) = Len(tasks)

\* discovery is complete and two probes reported in the reverse of their
\* index order
OutOfOrderCompleteWitness ==
    /\ dpc = "done"
    /\ \E k \in MetadataEvents : \E l \in MetadataEvents :
         k < l /\ devents[k].idx > devents[l].idx

\* the recognized files walked, in path order
SortedRecognized == SortSeq(RecognizedWalked, LAMBDA a, b : a < b)

\* C19: every index sent carries the file at that position of the
\* path-sorted list of recognized files, so paths do not decrease with the
\* index, and when discovery is complete the (index, path) pairs sent are
\* those of that list, whatever the order the probes completed in.
IndexIsSortedPosition ==
    /\ \A k \in MetadataEvents :
         devents[k].path = SortedRecognized[devents[k].idx + 1]
    /\ \A k \in MetadataEvents : \A l \in MetadataEvents :
         devents[k].idx < devents[l].idx => devents[k].path <= devents[l].path
    /\ dpc = "done" =>
         {<<devents[k].idx, devents[k].path>> : k \in MetadataEvents}
           = {<<i - 1, SortedRecognized[i]>> : i \in 1..Len(SortedRecognized)}

\* over a disk with an unrecognized file, the probe of the last index
\* reported first and every recognized file has been reported
WalkOrderWitness ==
    /\ dpc = "done"
    /\ Len(tasks) >= 2
    /\ devents[2].idx = Len(tasks) - 1
    /\ \E f \in Files : ~Recognized(f)

\* the slots of a list whose path has an image in the cache
CachedSlots(list) ==
    {i \in 1..Len(list) :
       /\ list[i].slot = "MetadataLoaded"
       /\ GetImageResult(list[i].path) # NoVal}

\* C20: for every path whose image is in the cache, the width and height in
\* the path's slot of images and of all_images are those of the cached
\* image.
SlotDimensionsMatchCache ==
    /\ \A i \in CachedSlots(images) :
         /\ images[i].width = GetImageResult(images[i].path).width
         /\ images[i].height = GetImageResult(images[i].path).height
    /\ \A i \in CachedSlots(all_images) :
         /\ all_images[i].width = GetImageResult(all_images[i].path).width
         /\ all_images[i].height = GetImageResult(all_images[i].path).height

\* C21: right after a rotation or a flip is applied to the current item,
\* get_image returns the mutated image and get_thumbnail returns nothing for
\* its path; the thumbnail stays away until a ThumbnailLoaded for the path
\* is handled.
MutationReplacesBoth ==
    lastOp.op = "mutate" =>
      /\ GetThumbnailResult(lastOp.path) = NoVal
      /\ GetImageResult(lastOp.path) =
           (IF lastOp.dims THEN Rotated(lastOp.was) ELSE Flipped(lastOp.was))

\* a rotated or flipped image whose thumbnail the mutation removed
MutatedWithThumbnailWitness ==
    /\ lastOp.op = "mutate"
    /\ lastOp.hadAll
    /\ GetThumbnailResult(lastOp.path) = NoVal
    /\ GetImageResult(lastOp.path) # NoVal

\* C22: the image a holder obtained from the cache keeps the content and
\* dimensions it had when obtained; a mutation goes to a copy whenever the
\* cached object is shared, and the cache then points to the mutated copy.
HeldImageUnchanged ==
    /\ \A k \in Holders :
         holders[k] # NoHold =>
           /\ heap[holders[k].obj].strong >= 1
           /\ heap[holders[k].obj].content = holders[k].seen
    /\ cacheObj # 0 => heap[cacheObj].strong >= 1

\* a holder still sees the image as decoded while the cache holds a
\* rotated copy
HeldDuringMutationWitness ==
    \E k \in Holders :
      /\ holders[k] # NoHold
      /\ cacheObj # 0
      /\ holders[k].obj # cacheObj
      /\ holders[k].seen = DiskImage(1)
      /\ heap[cacheObj].content = Rotated(DiskImage(1))

\* C23: four clockwise rotations, four counter-clockwise rotations, and a
\* clockwise rotation followed by a counter-clockwise one, each give back
\* the width, the height and every frame's pixels of the decoded image.
RotationRoundTrip ==
    ops \in {<<"RotateCW", "RotateCW", "RotateCW", "RotateCW">>,
             <<"RotateCCW", "RotateCCW", "RotateCCW", "RotateCCW">>,
             <<"RotateCW", "RotateCCW">>}
    => loaded = decoded

\* a 2 x 1 image of two frames after its fourth clockwise rotation
FourRotationsWitness ==
    /\ ops = <<"RotateCW", "RotateCW", "RotateCW", "RotateCW">>
    /\ decoded.width = 2 /\ decoded.height = 1
    /\ Len(decoded.frames) = 2
    /\ loaded = decoded

\* C24: two horizontal flips, and two vertical flips, leave the width, the
\* height and every frame's pixels as decoded.
FlipTwiceIdentity ==
    ops \in {<<"FlipHorizontal", "FlipHorizontal">>,
             <<"FlipVertical", "FlipVertical">>}
    => loaded = decoded

\* a 2 x 2 image of two frames after its second horizontal flip
FlippedTwiceWitness ==
    /\ ops = <<"FlipHorizontal", "FlipHorizontal">>
    /\ decoded.width = 2 /\ decoded.height = 2
    /\ Len(decoded.frames) = 2
    /\ loaded = decoded

\* C26: no frame decode_gif produces has a zero or an infinite delay; a frame
\* whose declared delay has a zero denominator or comes to zero milliseconds
\* has exactly 100 ms.
GifDelaysNormalized ==
    (gif_result.ok /\ gif_frames # <<>>) =>
      \A k \in 1..Len(gif_frames) :
        /\ gif_result.delays[k] # 0
        /\ gif_result.delays[k] # DurationMax
        /\ (gif_frames[k].denom = 0 \/ gif_frames[k].numer \div gif_frames[k].denom = 0)
             => gif_result.delays[k] = DefaultDelayMs

\* C25: a thumbnail's width and height lie in 1..size, the file's longer
\* side maps to size and the other to max(1, floor(size * shorter / longer));
\* a 200 x 100 file at size 64 gives 64 x 32.
ThumbnailDimsExactRatio ==
    thumb_dims # <<0, 0>> =>
      LET w == thumb_req.width
          h == thumb_req.height
          size == thumb_req.size
          longer == Max(w, h)
          shorter == IF w >= h THEN h ELSE w
          other == IF w >= h THEN thumb_dims[2] ELSE thumb_dims[1]
          long == IF w >= h THEN thumb_dims[1] ELSE thumb_dims[2]
      IN  /\ thumb_dims[1] \in 1..size
          /\ thumb_dims[2] \in 1..size
          /\ long = size
          /\ other = Max(1, (size * shorter) \div longer)
          /\ (w = 200 /\ h = 100 /\ size = 64) => thumb_dims = <<64, 32>>

\* C29: get_image returns the image last inserted for the path, or none:
\* right after insert_image(p, img), get_image(p) is img, whatever the
\* weight class of the image the cache held for p before.
GetReturnsLatestInsert ==
    [][\A p \in CachePaths : \A img \in Images :
         InsertImage(p, img) => GetImageResult(p)' = img]_vars

\* C30: whenever get_image returns an image for the current item, a rotate
\* or flip is applied: afterwards get_image returns the mutated image,
\* whichever store held the image.
MutationAppliedWheneverCached ==
    [][\A dims \in BOOLEAN :
         (/\ MutateCurrentImage(dims)
          /\ GetImageResult(images[current_index + 1].path) # NoVal)
         => /\ lastOp'.op = "mutate"
            /\ GetImageResult(images[current_index + 1].path)' =
                 (IF dims
                  THEN Rotated(GetImageResult(images[current_index + 1].path))
                  ELSE Flipped(GetImageResult(images[current_index + 1].path)))]_vars


\* C28: once FileDeleted or FileChanged for an existing path has been
\* handled, the result of a request issued before it is not inserted: the
\* handler of a result for such a path leaves both caches as they were.
StaleResultNotInserted ==
    [][\A p \in CachePaths :
         (p \in stale /\ (ImagePixelsLoaded(p) \/ ThumbnailLoaded(p)))
           => UNCHANGED <<image_cache, thumb_cache, oversized>>]_vars


\* C27: every path the consumer added to its pending set is eventually
\* removed from it, also when the cap drops its request from the lane: at
\* any time each path is out of the pending set then or later.
PendingEventuallyRemoved ==
    \A p \in LanePaths : []<>(p \notin pending)


\* C35: no worker holds the background lane's mutex while it is inside
\* process_request: the mutex is then free or held by another thread.
NoDecodeUnderMutex ==
    \A w \in Workers : wpc[w] = "proc" => mutex # w

\* a worker decodes a thumbnail while the consumer holds the mutex for a push
DecodeDuringPushWitness ==
    /\ mutex = Consumer
    /\ \E w \in Workers : wpc[w] = "proc" /\ cur[w].kind = "thumb"


\* C34: with finitely many requests, terminating decodes and fair workers,
\* every background request is eventually dequeued by a worker or dropped by
\* the cap, and from some time on both lanes are empty.
LanesEventuallyDrained ==
    /\ \A i \in 1..(MaxUrgent + MaxBackground) :
         (i \in Ids(stack)) ~> (i \in TakenIds \cup dropped)
    /\ <>[](urgent = <<>> /\ stack = <<>>)


\* every request submitted has left its lane: the background request was
\* dequeued by a worker, and an urgent one was dequeued too
LanesDrainedWitness ==
    /\ urgent = <<>>
    /\ stack = <<>>
    /\ nBackground = MaxBackground
    /\ nUrgent > 0
    /\ \E r \in taken : r.kind = "thumb"
    /\ \E r \in taken : r.kind = "image"


\* C38: insert_image puts an image in the side list exactly when its weight
\* in KB is above image_limit_kb / 64, and in the weighted store otherwise;
\* an image that weighs the threshold goes to the weighted store.
InsertPlacesByWeight ==
    [][\A p \in CachePaths : \A img \in Images :
         InsertImage(p, img) =>
           IF SizeInKb(img) > ImageLimitKb \div 64
           THEN /\ oversized' # <<>>
                /\ oversized'[Len(oversized')] = [path |-> p, img |-> img]
                /\ image_cache' = image_cache
           ELSE /\ image_cache'[p] = img
                /\ oversized' = oversized]_vars

\* an image of the threshold weight is in the weighted store and one a KB
\* heavier is in the side list
ThresholdWeightWitness ==
    /\ \E p \in CachePaths : SizeInKb(image_cache[p]) = ImageLimitKb \div 64
    /\ \E i \in 1..Len(oversized) :
         SizeInKb(oversized[i].img) = ImageLimitKb \div 64 + 1


\* C37: a rotation of an image of width w and height h gives an image of
\* width h and height w whose every frame holds w*h pixels, the pixel of
\* column x and row y having gone to column h-1-y of row x (clockwise) or
\* to column y of row w-1-x (counter-clockwise); no frame is left empty.
RotateTransformsEveryFrame ==
    [][\A clockwise \in BOOLEAN :
         Rotate(clockwise) =>
           LET w == loaded.width
               h == loaded.height
           IN  /\ loaded'.width = h
               /\ loaded'.height = w
               /\ Len(loaded'.frames) = Len(loaded.frames)
               /\ \A k \in 1..Len(loaded.frames) :
                    /\ Len(loaded'.frames[k]) = w * h
                    /\ \A x \in 0..(w - 1) : \A y \in 0..(h - 1) :
                         loaded'.frames[k][IF clockwise
                                           THEN x * h + (h - 1 - y) + 1
                                           ELSE (w - 1 - x) * h + y + 1]
                           = loaded.frames[k][y * w + x + 1]]_vars

\* a 2 x 1 image of two frames after one clockwise rotation: 1 x 2, both
\* frames of two pixels
RotatedOnceWitness ==
    /\ ops = <<"RotateCW">>
    /\ decoded.width = 2 /\ decoded.height = 1
    /\ loaded.width = 1 /\ loaded.height = 2
    /\ Len(loaded.frames) = 2
    /\ \A k \in 1..2 : Len(loaded.frames[k]) = 2


\* C36: the list of tasks holds each file path at most once: no two
\* indices carry the same path, whatever the root paths given.
TasksPathsDistinct ==
    \A i \in 1..Len(tasks) : \A j \in 1..Len(tasks) :
      tasks[i] = tasks[j] => i = j


\* the first 1024 bytes of the file identified, and whether they hold the
\* letters of "<svg" in a row, each in either case
FilePrefix ==
    [i \in 1..(IF Len(fmt_file.bytes) < 1024 THEN Len(fmt_file.bytes) ELSE 1024)
       |-> fmt_file.bytes[i]]
PrefixHasSvgTag ==
    \E i \in 1..(Len(FilePrefix) - 3) :
      /\ FilePrefix[i] = "<"
      /\ FilePrefix[i + 1] \in {"s", "S"}
      /\ FilePrefix[i + 2] \in {"v", "V"}
      /\ FilePrefix[i + 3] \in {"g", "G"}
PrefixMime == Sniffed(FilePrefix)

\* C39: for a file that can be read, identify_format is decided by the
\* first 1024 bytes alone: image/svg+xml gives Svg, image/gif gives Gif, any
\* other image/* gives Static, and for every other MIME the result is Svg
\* when the prefix holds "<svg" in any case and an error otherwise;
\* discovery drops exactly the files for which it returned an error.
FormatDecidedByPrefix ==
    /\ (fmt_result # NotIdentified /\ fmt_file.readable) =>
         fmt_result =
           (IF PrefixMime = Mime("image", "svg+xml") THEN Format("Svg")
            ELSE IF PrefixMime = Mime("image", "gif") THEN Format("Gif")
            ELSE IF PrefixMime.top = "image" THEN Format("Static")
            ELSE IF PrefixHasSvgTag THEN Format("Svg")
            ELSE Unrecognized)
    /\ fmt_kept # "undecided" =>
         (fmt_kept = "dropped") <=> ~fmt_result.ok

\* a file without a signature whose "<SVG" lies across the end of the prefix
\* was not recognized and was dropped
TagAcrossPrefixEndWitness ==
    /\ fmt_file.readable
    /\ Len(fmt_file.bytes) > 1024
    /\ SubSeq(fmt_file.bytes, 1022, 1025) = <<"<", "S", "V", "G">>
    /\ fmt_file.bytes[1] = Filler
    /\ fmt_result = Unrecognized
    /\ fmt_kept = "dropped"


\* C31: whenever the event the loop handles next is one whose handler reads
\* images[current_index] (ImagePixelsLoaded, FileDeleted, FileChanged for a
\* path in the list), the visible list is not empty and current_index is
\* one of its indices.
HandlerIndexInBounds ==
    (/\ proxyq # <<>>
     /\ \/ Head(proxyq).type \in {"ImagePixelsLoaded", "FileDeleted"}
        \/ /\ Head(proxyq).type = "FileChanged"
           /\ SlotsOf(all_images, Head(proxyq).path) # {})
    => (images # <<>> /\ current_index < Len(images))


\* the load requests for path p issued and neither dropped nor answered:
\* in a lane, or with their result waiting for the event loop
OutstandingIn(q, p) == Cardinality({i \in 1..Len(q) : q[i].path = p})
ResultsFor(p) ==
    Cardinality({i \in 1..Len(proxyq) :
                   /\ proxyq[i].path = p
                   /\ proxyq[i].type \in {"ImagePixelsLoaded", "ThumbnailLoaded",
                                         "LoadError"}})
Outstanding(p) == OutstandingIn(urgentq, p) + OutstandingIn(thumbq, p) + ResultsFor(p)

\* C33: at any time at most one load request, for the image or for the
\* thumbnail, is outstanding per path, and its path is in the pending set.
OneOutstandingPerPath ==
    \A p \in DOMAIN disk :
      /\ Outstanding(p) <= 1
      /\ Outstanding(p) = 1 => p \in pending

\* a path whose thumbnail was loaded earlier has its image request in the
\* urgent lane while the result for another path waits
RequestedAgainWitness ==
    \E p \in CachePaths : \E q \in CachePaths :
      /\ p # q
      /\ GetThumbnailResult(p) # NoVal
      /\ OutstandingIn(urgentq, p) = 1
      /\ ResultsFor(q) = 1
      /\ {p, q} \subseteq pending

\* C32: once DiscoveryComplete is handled, all_images holds no
\* PendingMetadata slot and its loaded items are in sorted path order, also
\* when the watcher's FileChanged and FileDeleted were handled since
\* InitialCount.
LoadedInPathOrder(list) ==
    \A i \in 1..Len(list) : \A j \in 1..Len(list) :
      (/\ i < j
       /\ list[i].slot = "MetadataLoaded"
       /\ list[j].slot = "MetadataLoaded") => list[i].path <= list[j].path

DiscoveredListComplete ==
    discovery_complete =>
      /\ \A i \in 1..Len(all_images) : all_images[i].slot # "PendingMetadata"
      /\ LoadedInPathOrder(all_images)

====
